---- MODULE Spec2Model ----
(***************************************************************************)
(* State-machine model of data-prep/alice-aiml/download.py: the            *)
(* incremental concurrent AIML downloader (AIMLDownloader, FileMetadata).  *)
(*                                                                         *)
(* One collection is processed by download_collection.  Every item of the  *)
(* manifest is an asyncio task; a task runs without interruption from one  *)
(* suspension point (a blocked semaphore acquire, an HTTP request, a file  *)
(* operation of aiofiles, a sleep) to the next, so every action below is   *)
(* the code between two suspension points of one task.                     *)
(***************************************************************************)
EXTENDS Integers, Sequences, FiniteSets, TLC

\* ------------------------------------------------------------------------
\* Bounds of the model
\* ------------------------------------------------------------------------
\* largest value of --max-concurrent that is tried (1..MaxConcurrent)
MaxConcurrent == 2
\* number of chunks iter_chunked yields for a non-empty body
NChunks == 2
\* number of times the program is run on the same work directory
MaxRuns == 2

\* ------------------------------------------------------------------------
\* Program constants
\* ------------------------------------------------------------------------
MAX_FILE_SIZE == 10485760
RETRY_ATTEMPTS == 3
RETRY_DELAY == 1

\* ------------------------------------------------------------------------
\* Values
\* ------------------------------------------------------------------------
None == "None"

\* A filename is the last segment of the URL path, kept as stem and suffix.
FA == [stem |-> "a", suffix |-> ".aiml"]
FT == [stem |-> "t", suffix |-> ".txt"]
Names == {FA, FT}

\* URLs as urlparse splits them.
DirX == [stem |-> "x", suffix |-> ""]
DirY == [stem |-> "y", suffix |-> ""]
UrlA  == [scheme |-> "https", netloc |-> "h1", path |-> <<DirX, FA>>]
UrlA2 == [scheme |-> "https", netloc |-> "h2", path |-> <<DirY, FA>>]
UrlT  == [scheme |-> "https", netloc |-> "h1", path |-> <<DirX, FT>>]
UrlT2 == [scheme |-> "https", netloc |-> "h2", path |-> <<DirY, FT>>]
\* a relative reference: no scheme, no host
UrlRel == [scheme |-> "", netloc |-> "", path |-> <<DirX, FA>>]
\* scheme and host without a path
UrlBare == [scheme |-> "https", netloc |-> "h1", path |-> <<>>]

\* file_info.get('url') of an entry without a url
NoUrl == [scheme |-> None, netloc |-> None, path |-> <<>>]

\* The tasks of a collection are the positions of its files list.
TaskIds == {1, 2}

\* validate_url looking at the path only.
validate_url_PathOnly(url) == url.path # <<>>

\* validate_url: scheme, netloc and path are all non-empty
validate_url(url) ==
    /\ url.scheme # ""
    /\ url.netloc # ""
    /\ url.path # <<>>

\* Path(urlparse(url).path).name
Filename(url) ==
    IF url.path = <<>> THEN [stem |-> "", suffix |-> ""]
    ELSE url.path[Len(url.path)]

\* ------------------------------------------------------------------------
\* Files, bodies and documents
\* ------------------------------------------------------------------------
\* A file is a sequence of chunk slots; a slot never written is a hole.
Hole == [src |-> 0, kind |-> "hole"]
NoFile == [exists |-> FALSE, content |-> <<>>]
File(c) == [exists |-> TRUE, content |-> c]

\* What a server can send as a body.
Kinds == {"good", "nocat", "nopattern", "badroot", "malformed", "blank", "empty"}

\* The body of kind k served to task t, as the chunks iter_chunked yields.
BodyOf(t, k) ==
    IF k = "empty" THEN <<>>
    ELSE [i \in 1..NChunks |-> [src |-> t, kind |-> k]]

\* The content published by an earlier run.
OldBody == [i \in 1..NChunks |-> [src |-> 0, kind |-> "good"]]

\* hashlib.sha256 over the streamed chunks: distinct streams, distinct digests.
Sha256(chunks) == <<"sha256", chunks>>

\* What ET.fromstring and the AIML checks see in a text.
DocOf(content) ==
    LET whole == /\ Len(content) = NChunks
                 /\ \A i \in 1..Len(content) : content[i] = content[1]
        k == IF whole THEN content[1].kind ELSE "malformed"
    IN [blank      |-> content = <<>> \/ k = "blank",
        wellformed |-> k \in {"good", "nocat", "nopattern", "badroot"},
        root       |-> IF k = "badroot" THEN "other" ELSE "aiml",
        categories |-> IF k \in {"good", "nopattern", "badroot"} THEN 1 ELSE 0,
        pattern    |-> k # "nopattern"]

\* validate_xml_file turning the AIML warnings into failures.
validate_xml_file_Strict(file) ==
    IF ~file.exists THEN FALSE
    ELSE LET doc == DocOf(file.content)
         IN IF doc.blank THEN FALSE
            ELSE IF ~doc.wellformed THEN FALSE
            ELSE doc.root = "aiml" /\ doc.categories > 0 /\ doc.pattern

\* validate_xml_file: False for a missing, empty or not well-formed file;
\* the AIML checks only warn.
validate_xml_file(file) ==
    IF ~file.exists THEN FALSE
    ELSE LET doc == DocOf(file.content)
         IN IF doc.blank THEN FALSE
            ELSE IF ~doc.wellformed THEN FALSE
            ELSE TRUE

\* ------------------------------------------------------------------------
\* Metadata records and HTTP validators
\* ------------------------------------------------------------------------
NoVal == [etag |-> None, last_modified |-> None]
OldVal == [etag |-> "E1", last_modified |-> "L1"]
NewVal == [etag |-> "E2", last_modified |-> "L2"]

NoRec == [present |-> FALSE, etag |-> None, last_modified |-> None,
          hash |-> <<>>, size |-> 0]
Rec(etag, lm, h, n) == [present |-> TRUE, etag |-> etag, last_modified |-> lm,
                        hash |-> h, size |-> n]
OldRec == Rec(OldVal.etag, OldVal.last_modified, Sha256(OldBody), Len(OldBody))

\* Python's `a or b` on optional strings
Or(a, b) == IF a # None /\ a # "" THEN a ELSE b

\* response.headers.get('Content-Length')
NoLength == [given |-> FALSE, n |-> 0]
Length(n) == [given |-> TRUE, n |-> n]

ZeroStats == [downloaded |-> 0, skipped |-> 0, errors |-> 0,
              validation_errors |-> 0, total_size |-> 0]

VARIABLES
    max_concurrent,  \* AIMLDownloader.max_concurrent
    force_download,  \* AIMLDownloader.force_download
    files,           \* collection_data['files']
    server,          \* what the remote side may answer: "any" or "stable"
    todo,            \* the collections download_all has not come to yet
    coll,            \* the number of the collection download_all is at
    saves,           \* calls of metadata.save() for this collection
    dry_run,         \* --dry-run
    validate_only,   \* --validate-only
    sources_dir,     \* SOURCES_DIR: whether it exists, and its *.yaml files
    requested,       \* the collection names given on the command line
    gitignore,       \* SCRIPT_DIR/.gitignore
    workdir,         \* whether WORK_DIR and its subdirectories exist
    exitcode,        \* the exit status of the process, once it has ended
    report,          \* the last line main has printed about the run
    success_count,   \* download_all: collections download_collection returned True for
    saveerr,         \* "Failed to save metadata" warnings printed so far
    phase,           \* where download_collection is
    run,             \* number of the process run
    sem,             \* free slots of self.semaphore
    csem,            \* free slots of download_collection's semaphore
    data,            \* metadata.data (in memory)
    disk,            \* the metadata file of the collection
    finalf,          \* the file at each final path
    tmpf,            \* the file at each '.tmp' path
    stats,           \* self.stats
    pc,              \* the suspension point each task is at
    attempt,         \* download_file's loop variable
    cond,            \* the conditional headers of the probe in flight
    hinfo,           \* headers_info returned by the probe
    rval,            \* ETag / Last-Modified of the GET response
    body,            \* the chunks the GET response will yield
    off,             \* chunks streamed so far (file_size, file_hash)
    fd,              \* what the task's open staging handle points at
    valid,           \* is_valid
    outcome,         \* how the task ended
    cause,           \* the exception that ended the task's last attempt
    nHead,           \* HEAD requests the task has issued
    nGet,            \* GET requests the task has issued
    delays           \* the delays the task has slept

cfgvars == <<max_concurrent, force_download, files, server, todo, coll,
             dry_run, validate_only, sources_dir, requested>>
vars == <<max_concurrent, force_download, files, server, todo, coll, saves,
          dry_run, validate_only, sources_dir, requested, gitignore, workdir,
          exitcode, report, success_count, saveerr,
          phase, run, sem, csem,
          data, disk, finalf, tmpf, stats, pc, attempt, cond, hinfo, rval,
          body, off, fd, valid, outcome, cause, nHead, nGet,
          delays>>

Tasks == 1..Len(files)
Fname(t) == Filename(files[t].url)
\* min(self.max_concurrent, len(files))
Min(a, b) == IF a < b THEN a ELSE b

\* The mutable state as one record, so that the code between two suspension
\* points can be written as a composition of functions on it.
Snap == [sem |-> sem, csem |-> csem, data |-> data, finalf |-> finalf,
         tmpf |-> tmpf, stats |-> stats, pc |-> pc, attempt |-> attempt,
         cond |-> cond, hinfo |-> hinfo, rval |-> rval, body |-> body,
         off |-> off, fd |-> fd, valid |-> valid, outcome |-> outcome,
         cause |-> cause, nHead |-> nHead, nGet |-> nGet, delays |-> delays,
         saves |-> saves, gitignore |-> gitignore, workdir |-> workdir,
         exitcode |-> exitcode, report |-> report,
         success_count |-> success_count, saveerr |-> saveerr]

Commit(s) ==
    /\ sem' = s.sem /\ csem' = s.csem /\ data' = s.data
    /\ finalf' = s.finalf /\ tmpf' = s.tmpf /\ stats' = s.stats
    /\ pc' = s.pc /\ attempt' = s.attempt /\ cond' = s.cond
    /\ hinfo' = s.hinfo /\ rval' = s.rval /\ body' = s.body
    /\ off' = s.off /\ fd' = s.fd /\ valid' = s.valid
    /\ outcome' = s.outcome /\ cause' = s.cause /\ nHead' = s.nHead
    /\ nGet' = s.nGet /\ delays' = s.delays /\ saves' = s.saves
    /\ gitignore' = s.gitignore /\ workdir' = s.workdir
    /\ exitcode' = s.exitcode /\ report' = s.report
    /\ success_count' = s.success_count /\ saveerr' = s.saveerr

\* ------------------------------------------------------------------------
\* download_with_semaphore / download_file, between suspension points
\* ------------------------------------------------------------------------
\* Task-local values that are dead once an attempt has ended.
ClearLocals(s, t) ==
    [s EXCEPT !.cond[t] = NoVal, !.hinfo[t] = NoVal, !.rval[t] = NoVal,
              !.body[t] = <<>>, !.off[t] = 0, !.fd[t] = "none",
              !.valid[t] = FALSE]

\* download_with_semaphore returns: `async with semaphore` releases.
Finish(s, t, out) ==
    [ClearLocals(s, t) EXCEPT !.pc[t] = "done", !.outcome[t] = out,
                              !.csem = @ + 1]

\* temp_path.unlink(): handles other tasks hold on the file lose their path.
Unlink(s, f) ==
    [s EXCEPT !.tmpf[f] = NoFile,
              !.fd = [u \in DOMAIN @ |->
                        IF u \in Tasks /\ Fname(u) = f /\ @[u] = "tmp"
                        THEN "orphan" ELSE @[u]]]

\* The same delay before every retry.
Backoff_Constant(a) == RETRY_DELAY

\* RETRY_DELAY * (2 ** attempt)
Backoff(a) == RETRY_DELAY * (2 ^ a)

\* The except branch of download_file ending the item after any failure that
\* is a validation failure, without the retries.
HandleFailure_ValidationFinal(s, t) ==
    LET f == Fname(t)
        s1 == IF s.tmpf[f].exists THEN Unlink(s, f) ELSE s
    IN IF s.attempt[t] = RETRY_ATTEMPTS - 1 \/ s.cause[t] = "validation"
       THEN Finish([s1 EXCEPT !.stats.errors = @ + 1], t, "Failed")
       ELSE [ClearLocals(s1, t) EXCEPT
                !.pc[t] = "sleep",
                !.delays[t] = Append(@, Backoff(s.attempt[t]))]

\* The except branch of download_file removing the published file as well.
HandleFailure_RemovesFinal(s, t) ==
    LET f == Fname(t)
        s1 == IF s.tmpf[f].exists THEN Unlink(s, f) ELSE s
        s2 == [s1 EXCEPT !.finalf[f] = NoFile]
    IN IF s.attempt[t] = RETRY_ATTEMPTS - 1
       THEN Finish([s2 EXCEPT !.stats.errors = @ + 1], t, "Failed")
       ELSE [ClearLocals(s2, t) EXCEPT
                !.pc[t] = "sleep",
                !.delays[t] = Append(@, Backoff(s.attempt[t]))]

\* The except branch of download_file (the global slot is already released).
HandleFailure(s, t) ==
    LET f == Fname(t)
        s1 == IF s.tmpf[f].exists THEN Unlink(s, f) ELSE s
    IN IF s.attempt[t] = RETRY_ATTEMPTS - 1
       THEN Finish([s1 EXCEPT !.stats.errors = @ + 1], t, "Failed")
       ELSE [ClearLocals(s1, t) EXCEPT
                !.pc[t] = "sleep",
                !.delays[t] = Append(@, Backoff(s.attempt[t]))]

\* The except branch reached with the global slot still held.
Raise_KeepSlot(s, t, why) ==
    HandleFailure([s EXCEPT !.fd[t] = "none", !.cause[t] = why], t)

\* An exception leaves `async with self.semaphore` (and an open staging
\* handle) and reaches the except branch.
Raise(s, t, why) ==
    HandleFailure([s EXCEPT !.sem = @ + 1, !.fd[t] = "none",
                            !.cause[t] = why], t)

\* self.session.get(url) is awaited.
IssueGet(s, t) ==
    [s EXCEPT !.pc[t] = "get", !.nGet[t] = @ + 1, !.cond[t] = NoVal]

\* self.session.head(url, headers=headers) is awaited, holding a second slot.
IssueHead(s, t) ==
    [s EXCEPT !.pc[t] = "head", !.nHead[t] = @ + 1]

\* `async with self.semaphore` inside check_file_needs_download.
AcquireForProbe(s, t) ==
    IF s.sem > 0
    THEN IssueHead([s EXCEPT !.sem = @ - 1], t)
    ELSE [s EXCEPT !.pc[t] = "wait_probe"]

\* check_file_needs_download without the test for a missing record.
check_file_needs_download_NoRecordTest(s, t) ==
    LET f == Fname(t)
        cached_info == s.data[f]
    IN IF force_download THEN IssueGet([s EXCEPT !.hinfo[t] = NoVal], t)
       ELSE IF ~s.finalf[f].exists THEN IssueGet([s EXCEPT !.hinfo[t] = NoVal], t)
       ELSE AcquireForProbe(
               [s EXCEPT !.cond[t] = [etag |-> cached_info.etag,
                                      last_modified |-> cached_info.last_modified]],
               t)

\* check_file_needs_download without the test of force_download.
check_file_needs_download_NoForce(s, t) ==
    LET f == Fname(t)
        cached_info == s.data[f]
    IN IF ~s.finalf[f].exists THEN IssueGet([s EXCEPT !.hinfo[t] = NoVal], t)
       ELSE IF ~cached_info.present THEN IssueGet([s EXCEPT !.hinfo[t] = NoVal], t)
       ELSE AcquireForProbe(
               [s EXCEPT !.cond[t] = [etag |-> cached_info.etag,
                                      last_modified |-> cached_info.last_modified]],
               t)

\* check_file_needs_download up to its first suspension point, and the
\* caller's reaction when it returns at once.
check_file_needs_download(s, t) ==
    LET f == Fname(t)
        cached_info == s.data[f]
    IN IF force_download THEN IssueGet([s EXCEPT !.hinfo[t] = NoVal], t)
       ELSE IF ~s.finalf[f].exists THEN IssueGet([s EXCEPT !.hinfo[t] = NoVal], t)
       ELSE IF ~cached_info.present THEN IssueGet([s EXCEPT !.hinfo[t] = NoVal], t)
       ELSE AcquireForProbe(
               [s EXCEPT !.cond[t] = [etag |-> cached_info.etag,
                                      last_modified |-> cached_info.last_modified]],
               t)

\* BeginAttempt taking a slot whether or not one is free.
BeginAttempt_NoWait(s, t) ==
    check_file_needs_download([s EXCEPT !.sem = @ - 1], t)

\* One iteration of `for attempt in range(RETRY_ATTEMPTS)` starts:
\* `async with self.semaphore` in download_file.
BeginAttempt(s, t) ==
    IF s.sem > 0
    THEN check_file_needs_download([s EXCEPT !.sem = @ - 1], t)
    ELSE [s EXCEPT !.pc[t] = "wait_glob"]

\* The body of download_with_semaphore once the collection slot is held.
download_with_semaphore(s, t) ==
    LET url == files[t].url
    IN IF url = NoUrl \/ ~validate_url(url)
       THEN Finish(s, t, "Invalid")
       ELSE BeginAttempt([s EXCEPT !.attempt[t] = 0], t)

\* download_with_semaphore entered without the collection semaphore.
EnterCollectionGate_Open(s, t) ==
    download_with_semaphore([s EXCEPT !.csem = IF @ > 0 THEN @ - 1 ELSE 0], t)

\* `async with semaphore` of download_collection.
EnterCollectionGate(s, t) ==
    IF s.csem > 0
    THEN download_with_semaphore([s EXCEPT !.csem = @ - 1], t)
    ELSE [s EXCEPT !.pc[t] = "wait_coll"]

\* AfterHead letting a failed probe fail the attempt.
AfterHead_Fatal(s, t, r) ==
    LET s1 == [s EXCEPT !.sem = @ + 1, !.cond[t] = NoVal]
    IN IF r.status = "304"
       THEN Finish([s1 EXCEPT !.stats.skipped = @ + 1, !.sem = @ + 1],
                   t, "Skipped")
       ELSE IF r.status = "200"
       THEN IssueGet([s1 EXCEPT !.hinfo[t] = r.val], t)
       ELSE Raise(s1, t, "probe")

\* AfterHead taking 304 for one more status that is not 200.
AfterHead_NoSkip(s, t, r) ==
    LET s1 == [s EXCEPT !.sem = @ + 1, !.cond[t] = NoVal]
    IN IF r.status = "200"
       THEN IssueGet([s1 EXCEPT !.hinfo[t] = r.val], t)
       ELSE IssueGet([s1 EXCEPT !.hinfo[t] = NoVal], t)

\* The probe has answered: status is "304", "200", "other" or "error".
AfterHead(s, t, r) ==
    LET s1 == [s EXCEPT !.sem = @ + 1, !.cond[t] = NoVal]
    IN IF r.status = "304"
       THEN Finish([s1 EXCEPT !.stats.skipped = @ + 1, !.sem = @ + 1],
                   t, "Skipped")
       ELSE IF r.status = "200"
       THEN IssueGet([s1 EXCEPT !.hinfo[t] = r.val], t)
       ELSE IssueGet([s1 EXCEPT !.hinfo[t] = NoVal], t)

\* aiofiles.open(temp_path, 'wb'): creates the file or truncates it.
OpenStaging(s, t) ==
    LET f == Fname(t)
    IN [s EXCEPT !.tmpf[f] = File(<<>>), !.fd[t] = "tmp"]

\* AfterGet without the test of Content-Length.
AfterGet_NoSizeCheck(s, t, r) ==
    IF r.status = "error" THEN Raise(s, t, "request")
    ELSE IF r.status # "200" THEN Raise(s, t, "status")
    ELSE [OpenStaging(s, t) EXCEPT !.pc[t] = "stream", !.off[t] = 0,
                                   !.body[t] = BodyOf(t, r.kind),
                                   !.rval[t] = r.val]

\* The transfer response has arrived (or the request failed).
AfterGet(s, t, r) ==
    IF r.status = "error" THEN Raise(s, t, "request")
    ELSE IF r.status # "200" THEN Raise(s, t, "status")
    ELSE IF r.content_length.given /\ r.content_length.n > MAX_FILE_SIZE
    THEN Raise(s, t, "oversize")
    ELSE [OpenStaging(s, t) EXCEPT !.pc[t] = "stream", !.off[t] = 0,
                                   !.body[t] = BodyOf(t, r.kind),
                                   !.rval[t] = r.val]

\* f.write(chunk) through the task's handle, at the handle's own offset.
WriteAt(content, i, chunk) ==
    [j \in 1..(IF Len(content) > i THEN Len(content) ELSE i) |->
        IF j = i THEN chunk
        ELSE IF j <= Len(content) THEN content[j] ELSE Hole]

WriteChunk(s, t) ==
    LET f == Fname(t)
        i == s.off[t] + 1
        chunk == s.body[t][i]
        s1 == [s EXCEPT !.off[t] = i]
    IN IF s.fd[t] = "tmp"
       THEN [s1 EXCEPT !.tmpf[f].content = WriteAt(@, i, chunk)]
       ELSE IF s.fd[t] = "final"
       THEN [s1 EXCEPT !.finalf[f].content = WriteAt(@, i, chunk)]
       ELSE s1

\* One turn of `async for chunk in response.content.iter_chunked(8192)`:
\* the next chunk, the end of the body, or a transport error.
AfterChunk(s, t, ev) ==
    IF ev = "error" THEN Raise(s, t, "stream")
    ELSE IF s.off[t] < Len(s.body[t]) THEN WriteChunk(s, t)
    ELSE [s EXCEPT !.pc[t] = "closed", !.fd[t] = "none"]

\* temp_path.rename(local_path): handles follow the file they were opened on.
Rename(s, f) ==
    [s EXCEPT !.finalf[f] = s.tmpf[f],
              !.tmpf[f] = NoFile,
              !.fd = [u \in DOMAIN @ |->
                        IF u \in Tasks /\ Fname(u) = f
                        THEN (IF @[u] = "tmp" THEN "final"
                              ELSE IF @[u] = "final" THEN "orphan" ELSE @[u])
                        ELSE @[u]]]

\* metadata.update_file_info
update_file_info(s, f, etag, lm, h, n) ==
    [s EXCEPT !.data[f] = Rec(etag, lm, h, n)]

\* Publish without the call of metadata.update_file_info.
Publish_NoRecord(s, t) ==
    LET f == Fname(t)
        n == Len(s.body[t])
    IN IF ~s.tmpf[f].exists THEN Raise(s, t, "rename")
       ELSE Finish([Rename(s, f) EXCEPT !.stats.downloaded = @ + 1,
                                        !.stats.total_size = @ + n,
                                        !.sem = @ + 1],
                   t, "Downloaded")

\* Publish preferring the validators of the probe to those of the GET.
Publish_ProbeFirst(s, t) ==
    LET f == Fname(t)
        n == Len(s.body[t])
    IN IF ~s.tmpf[f].exists THEN Raise(s, t, "rename")
       ELSE LET s1 == Rename(s, f)
                s2 == update_file_info(s1, f,
                         Or(s.hinfo[t].etag, s.rval[t].etag),
                         Or(s.hinfo[t].last_modified, s.rval[t].last_modified),
                         Sha256(s.body[t]), n)
            IN Finish([s2 EXCEPT !.stats.downloaded = @ + 1,
                                 !.stats.total_size = @ + n,
                                 !.sem = @ + 1],
                      t, "Downloaded")

\* The rename, the metadata update and the statistics: no suspension between.
Publish(s, t) ==
    LET f == Fname(t)
        n == Len(s.body[t])
    IN IF ~s.tmpf[f].exists THEN Raise(s, t, "rename")
       ELSE LET s1 == Rename(s, f)
                s2 == update_file_info(s1, f,
                         Or(s.rval[t].etag, s.hinfo[t].etag),
                         Or(s.rval[t].last_modified, s.hinfo[t].last_modified),
                         Sha256(s.body[t]), n)
            IN Finish([s2 EXCEPT !.stats.downloaded = @ + 1,
                                 !.stats.total_size = @ + n,
                                 !.sem = @ + 1],
                      t, "Downloaded")

\* The staging file is closed: validate_xml_file reads it (names ending in
\* '.aiml'), or the file is published at once.
AfterClose(s, t) ==
    IF Fname(t).suffix = ".aiml"
    THEN [s EXCEPT !.pc[t] = "validated",
                   !.valid[t] = validate_xml_file(s.tmpf[Fname(t)])]
    ELSE Publish(s, t)

\* validate_xml_file has returned is_valid.
AfterValidate(s, t) ==
    IF ~s.valid[t]
    THEN Raise([s EXCEPT !.stats.validation_errors = @ + 1], t,
               "validation")
    ELSE Publish(s, t)

\* ------------------------------------------------------------------------
\* The remote side
\* ------------------------------------------------------------------------
\* Answers to the conditional HEAD of task t.  A stable server holds every
\* resource at validators OldVal and honours If-None-Match.
HeadResponses(t) ==
    IF server.mode = "stable"
    THEN {[status |-> IF cond[t].etag = OldVal.etag THEN "304" ELSE "200",
           val |-> OldVal]}
    ELSE {[status |-> "304", val |-> NoVal],
          [status |-> "other", val |-> NoVal],
          [status |-> "error", val |-> NoVal]}
         \cup {[status |-> "200", val |-> v] : v \in server.vals}

\* The bodies worth telling apart for a name: the code looks into the text
\* of '.aiml' files only; of any other file it sees the length alone.
ServedKinds(f) ==
    IF f.suffix = ".aiml" THEN server.kinds ELSE server.kinds \cap {"good", "empty"}

\* Answers to the GET of task t.  A stable server may fail transiently, but
\* not on the last attempt.
GetResponses(t) ==
    IF server.mode = "stable"
    THEN {[status |-> "200", content_length |-> NoLength, kind |-> "good",
           val |-> OldVal]}
         \cup (IF attempt[t] < RETRY_ATTEMPTS - 1
               THEN {[status |-> "other", content_length |-> NoLength,
                      kind |-> "empty", val |-> NoVal]}
               ELSE {})
    ELSE {[status |-> st, content_length |-> NoLength, kind |-> "empty",
           val |-> NoVal] : st \in {"other", "error"}}
         \cup {[status |-> "200", content_length |-> Length(MAX_FILE_SIZE + 1),
                kind |-> "empty", val |-> NoVal]}
         \cup {[status |-> "200", content_length |-> cl, kind |-> k, val |-> v] :
                 cl \in {NoLength, Length(MAX_FILE_SIZE)},
                 k \in ServedKinds(Fname(t)), v \in server.vals}

\* What the body stream does next.
ChunkEvents(t) ==
    IF server.mode = "stable" THEN {"next"} ELSE {"next", "error"}

\* ------------------------------------------------------------------------
\* download_collection
\* ------------------------------------------------------------------------
RECURSIVE LaunchAll(_, _)
\* asyncio.gather starts the tasks in the order of the files list; each runs
\* to its first suspension point.
LaunchAll(s, t) ==
    IF t > Len(files) THEN s
    ELSE LaunchAll(EnterCollectionGate(s, t), t + 1)

\* The metadata file is absent.
NoStore == [exists |-> FALSE, form |-> "object", text |-> {}]

\* What the metadata file can hold: a JSON object ("object"), text that is not
\* JSON ("notjson"), a file that cannot be opened or read ("unreadable"), bytes
\* that are not text in the locale's encoding ("undecodable").
StoreForms == {"object", "notjson", "unreadable", "undecodable"}

\* A metadata file that does not hold a JSON object.
Damaged(form) == [exists |-> TRUE, form |-> form, text |-> {}]

\* json.load: the object's members become the dict's entries; a filename
\* without a member has no record.
parse(text) ==
    [f \in Names |->
        IF \E m \in text : m.key = f
        THEN LET m == CHOOSE m \in text : m.key = f
             IN Rec(m.value.etag, m.value.last_modified, m.value.hash,
                    m.value.size)
        ELSE NoRec]

\* FileMetadata.load: json.JSONDecodeError and OSError are caught and leave
\* the store empty.
load(file) ==
    IF file.exists /\ file.form = "object" THEN parse(file.text)
    ELSE [f \in Names |-> NoRec]

\* FileMetadata.load: the errors its except clause does not name leave the
\* constructor.  UnicodeDecodeError is a ValueError, not a JSONDecodeError.
loadRaises(file) ==
    file.exists /\ file.form \notin {"object", "notjson", "unreadable"}

\* download_collection treating a definition without items as an error.
StartCollection_EmptyIsError ==
    /\ phase = "start"
    /\ UNCHANGED <<cfgvars, run, disk>>
    /\ IF files = <<>> \/ loadRaises(disk)
       THEN /\ phase' = "raised"
            /\ Commit(Snap)
       ELSE /\ phase' = "gather"
            /\ Commit(LaunchAll(
                   [Snap EXCEPT !.data = load(disk),
                                !.csem = Min(max_concurrent, Len(files))], 1))

\* download_collection up to `await asyncio.gather(...)`.  FileMetadata is
\* constructed before the try statement: what its constructor raises leaves
\* download_collection and is caught by the loop of download_all.
StartCollection ==
    /\ phase = "start"
    /\ UNCHANGED <<cfgvars, run, disk>>
    /\ IF files = <<>>
       THEN /\ phase' = "returned"
            /\ Commit([Snap EXCEPT !.success_count = @ + 1])
       ELSE IF loadRaises(disk)
       THEN /\ phase' = "raised"
            /\ Commit(Snap)
       ELSE /\ phase' = "gather"
            /\ Commit(LaunchAll(
                   [Snap EXCEPT !.data = load(disk),
                                !.csem = Min(max_concurrent, Len(files))], 1))

\* A task blocked on the collection semaphore gets a slot.
ResumeCollectionGate(t) ==
    /\ t \in Tasks /\ phase = "gather" /\ pc[t] = "wait_coll" /\ csem > 0
    /\ Commit(download_with_semaphore([Snap EXCEPT !.csem = @ - 1], t))
    /\ UNCHANGED <<cfgvars, phase, run, disk>>

\* A task blocked on self.semaphore in download_file gets a slot.
ResumeAttempt(t) ==
    /\ t \in Tasks /\ phase = "gather" /\ pc[t] = "wait_glob" /\ sem > 0
    /\ Commit(check_file_needs_download([Snap EXCEPT !.sem = @ - 1], t))
    /\ UNCHANGED <<cfgvars, phase, run, disk>>

\* A task blocked on self.semaphore in check_file_needs_download gets a slot.
ResumeProbe(t) ==
    /\ t \in Tasks /\ phase = "gather" /\ pc[t] = "wait_probe" /\ sem > 0
    /\ Commit(IssueHead([Snap EXCEPT !.sem = @ - 1], t))
    /\ UNCHANGED <<cfgvars, phase, run, disk>>

HeadReturns(t) ==
    /\ t \in Tasks /\ phase = "gather" /\ pc[t] = "head"
    /\ \E r \in HeadResponses(t) : Commit(AfterHead(Snap, t, r))
    /\ UNCHANGED <<cfgvars, phase, run, disk>>

GetReturns(t) ==
    /\ t \in Tasks /\ phase = "gather" /\ pc[t] = "get"
    /\ \E r \in GetResponses(t) : Commit(AfterGet(Snap, t, r))
    /\ UNCHANGED <<cfgvars, phase, run, disk>>

StreamStep(t) ==
    /\ t \in Tasks /\ phase = "gather" /\ pc[t] = "stream"
    /\ \E ev \in ChunkEvents(t) : Commit(AfterChunk(Snap, t, ev))
    /\ UNCHANGED <<cfgvars, phase, run, disk>>

CloseReturns(t) ==
    /\ t \in Tasks /\ phase = "gather" /\ pc[t] = "closed"
    /\ Commit(AfterClose(Snap, t))
    /\ UNCHANGED <<cfgvars, phase, run, disk>>

ValidateReturns(t) ==
    /\ t \in Tasks /\ phase = "gather" /\ pc[t] = "validated"
    /\ Commit(AfterValidate(Snap, t))
    /\ UNCHANGED <<cfgvars, phase, run, disk>>

\* asyncio.sleep(RETRY_DELAY * (2 ** attempt)) is over: the next iteration.
SleepReturns(t) ==
    /\ t \in Tasks /\ phase = "gather" /\ pc[t] = "sleep"
    /\ Commit(BeginAttempt([Snap EXCEPT !.attempt[t] = @ + 1,
                                        !.cause[t] = "none"], t))
    /\ UNCHANGED <<cfgvars, phase, run, disk>>

\* json.dump(self.data): one member per filename that has a record.
dump(d) ==
    {[key |-> f,
      value |-> [etag |-> d[f].etag, last_modified |-> d[f].last_modified,
                 hash |-> d[f].hash, size |-> d[f].size]] :
        f \in {g \in Names : d[g].present}}

\* save writing an empty object.
save_Empty(d) == [exists |-> TRUE, form |-> "object", text |-> {}]

\* FileMetadata.save
save(d) == [exists |-> TRUE, form |-> "object", text |-> dump(d)]

\* gather returning as soon as one task is done.
GatherReturns_Early ==
    /\ phase = "gather"
    /\ \E t \in Tasks : pc[t] = "done"
    /\ phase' = "saved"
    /\ disk' = save(data)
    /\ Commit([Snap EXCEPT !.saves = @ + 1])
    /\ UNCHANGED <<cfgvars, run>>

\* gather has returned: the finally clause saves the metadata,
\* download_collection returns True and download_all counts the collection.
GatherReturns ==
    /\ phase = "gather"
    /\ \A t \in Tasks : pc[t] = "done"
    /\ phase' = "saved"
    /\ disk' = save(data)
    /\ Commit([Snap EXCEPT !.saves = @ + 1, !.success_count = @ + 1])
    /\ UNCHANGED <<cfgvars, run>>

\* What a save that raises leaves of the metadata file: mkdir or open raised
\* and the file is as it was, or open(..., 'w') truncated it and json.dump
\* raised before the object was written.
FailedSaves(file) == {file, Damaged("notjson")}

\* metadata.save() raising out of the finally clause: download_collection
\* raises, and the loop of download_all reports the collection as failed.
GatherReturnsSaveFails_Raising ==
    /\ phase = "gather"
    /\ \A t \in Tasks : pc[t] = "done"
    /\ phase' = "raised"
    /\ disk' \in FailedSaves(disk)
    /\ Commit([Snap EXCEPT !.saves = @ + 1, !.saveerr = @ + 1])
    /\ UNCHANGED <<cfgvars, run>>

\* gather has returned and metadata.save() raises: the finally clause prints
\* the warning, download_collection returns True.
GatherReturnsSaveFails ==
    /\ phase = "gather"
    /\ \A t \in Tasks : pc[t] = "done"
    /\ phase' = "saved"
    /\ disk' \in FailedSaves(disk)
    /\ Commit([Snap EXCEPT !.saves = @ + 1, !.saveerr = @ + 1,
                           !.success_count = @ + 1])
    /\ UNCHANGED <<cfgvars, run>>

\* A new process is started on what the previous one left on disk.
StartProcess ==
    /\ run' = run + 1
    /\ phase' = "start"
    /\ Commit([sem |-> max_concurrent, csem |-> 0,
               data |-> [f \in Names |-> NoRec],
               finalf |-> finalf, tmpf |-> tmpf, stats |-> ZeroStats,
               pc |-> [t \in TaskIds |-> IF t \in Tasks THEN "new" ELSE "done"],
               attempt |-> [t \in TaskIds |-> 0],
               cond |-> [t \in TaskIds |-> NoVal],
               hinfo |-> [t \in TaskIds |-> NoVal],
               rval |-> [t \in TaskIds |-> NoVal],
               body |-> [t \in TaskIds |-> <<>>],
               off |-> [t \in TaskIds |-> 0],
               fd |-> [t \in TaskIds |-> "none"],
               valid |-> [t \in TaskIds |-> FALSE],
               outcome |-> [t \in TaskIds |-> "none"],
               cause |-> [t \in TaskIds |-> "none"],
               nHead |-> [t \in TaskIds |-> 0],
               nGet |-> [t \in TaskIds |-> 0],
               delays |-> [t \in TaskIds |-> <<>>],
               saves |-> 0, gitignore |-> gitignore, workdir |-> workdir,
               exitcode |-> "none", report |-> "none",
               success_count |-> 0, saveerr |-> 0])
    /\ UNCHANGED <<cfgvars, disk>>

\* The program is run again after a run that completed.
Rerun ==
    /\ run < MaxRuns
    /\ phase \in {"saved", "returned"}
    /\ StartProcess

\* The process is killed while the collection is being downloaded, and the
\* program is run again.
Interrupt ==
    /\ run < MaxRuns
    /\ phase = "gather"
    /\ StartProcess

Next ==
    \/ StartCollection
    \/ \E t \in TaskIds : ResumeCollectionGate(t)
    \/ \E t \in TaskIds : ResumeAttempt(t)
    \/ \E t \in TaskIds : ResumeProbe(t)
    \/ \E t \in TaskIds : HeadReturns(t)
    \/ \E t \in TaskIds : GetReturns(t)
    \/ \E t \in TaskIds : StreamStep(t)
    \/ \E t \in TaskIds : CloseReturns(t)
    \/ \E t \in TaskIds : ValidateReturns(t)
    \/ \E t \in TaskIds : SleepReturns(t)
    \/ GatherReturns

\* ------------------------------------------------------------------------
\* Initial states
\* ------------------------------------------------------------------------
UsedNames(fs) == {Filename(fs[i].url) : i \in 1..Len(fs)}

\* A new process: AIMLDownloader.__init__, before download_collection.
InitTasks ==
    /\ phase = "start"
    /\ run = 1
    /\ coll = 1
    /\ saves = 0
    /\ dry_run = FALSE
    /\ validate_only = FALSE
    /\ sources_dir = [exists |-> TRUE, defs |-> <<>>]
    /\ requested = {}
    /\ gitignore = "with_entry"
    /\ workdir = TRUE
    /\ exitcode = "none"
    /\ report = "none"
    /\ success_count = 0
    /\ saveerr = 0
    /\ sem = max_concurrent
    /\ csem = 0
    /\ data = [f \in Names |-> NoRec]
    /\ tmpf = [f \in Names |-> NoFile]
    /\ stats = ZeroStats
    /\ pc = [t \in TaskIds |-> IF t \in Tasks THEN "new" ELSE "done"]
    /\ attempt = [t \in TaskIds |-> 0]
    /\ cond = [t \in TaskIds |-> NoVal]
    /\ hinfo = [t \in TaskIds |-> NoVal]
    /\ rval = [t \in TaskIds |-> NoVal]
    /\ body = [t \in TaskIds |-> <<>>]
    /\ off = [t \in TaskIds |-> 0]
    /\ fd = [t \in TaskIds |-> "none"]
    /\ valid = [t \in TaskIds |-> FALSE]
    /\ outcome = [t \in TaskIds |-> "none"]
    /\ cause = [t \in TaskIds |-> "none"]
    /\ nHead = [t \in TaskIds |-> 0]
    /\ nGet = [t \in TaskIds |-> 0]
    /\ delays = [t \in TaskIds |-> <<>>]

\* The local state earlier runs leave for a filename: nothing ("none"), a
\* published file with its record ("cached"), a published file whose record
\* was never saved ("norecord"), a record whose file was removed ("nofile").
InitDisk(cache) ==
    /\ finalf = [f \in Names |-> IF cache[f] \in {"cached", "norecord"}
                                 THEN File(OldBody) ELSE NoFile]
    /\ disk = IF \E f \in Names : cache[f] \in {"cached", "nofile"}
              THEN save([f \in Names |-> IF cache[f] \in {"cached", "nofile"}
                                         THEN OldRec ELSE NoRec])
              ELSE NoStore

InitWith(concurrencies, forces, manifests, caches, srv) ==
    /\ max_concurrent \in concurrencies
    /\ force_download \in forces
    /\ files \in manifests
    /\ todo = <<>>
    /\ server = srv
    /\ \E cache \in [Names -> caches \cup {"none"}] :
          /\ \A f \in Names : f \notin UsedNames(files) => cache[f] = "none"
          /\ InitDisk(cache)
    /\ InitTasks

\* Collections of two items: different names, the same name, and an item
\* whose url is rejected (no scheme and host, no url, no path).
Manifests ==
    { <<[url |-> UrlA], [url |-> UrlT]>>,
      <<[url |-> UrlT], [url |-> UrlT2]>>,
      <<[url |-> UrlRel], [url |-> UrlT]>>,
      <<[url |-> UrlA], [url |-> NoUrl]>>,
      <<[url |-> UrlBare], [url |-> UrlA]>> }

\* Two validated items that share a name.
ManifestsShared == { <<[url |-> UrlA], [url |-> UrlA2]>> }

\* A collection of one item, and one without items.
ManifestsOne == { <<[url |-> UrlA]>>, <<[url |-> UrlT]>>, <<>> }

AnyServer(kinds, vals) == [mode |-> "any", kinds |-> kinds, vals |-> vals]

\* One collection against a server that answers anything.
Init ==
    \/ InitWith(1..MaxConcurrent, BOOLEAN, Manifests, {"none", "cached"},
                AnyServer(Kinds, {NewVal}))
    \/ InitWith(1..MaxConcurrent, BOOLEAN, ManifestsShared, {"none", "cached"},
                AnyServer({"good", "malformed"}, {NewVal}))
    \/ InitWith(1..MaxConcurrent, BOOLEAN, ManifestsOne,
                {"none", "cached", "norecord", "nofile"},
                AnyServer(Kinds, {NoVal, NewVal}))

Spec == Init /\ [][Next]_vars

\* Runs that may be killed and are run again, against a server that answers
\* anything.
NextCrash ==
    \/ Next
    \/ Rerun
    \/ Interrupt

InitCrash ==
    InitWith(1..MaxConcurrent, {FALSE}, {<<[url |-> UrlA], [url |-> UrlT]>>},
             {"none", "cached"}, AnyServer({"good"}, {NewVal}))

SpecCrash == InitCrash /\ [][NextCrash]_vars

\* ------------------------------------------------------------------------
\* download_all: one collection after the other
\* ------------------------------------------------------------------------
\* What earlier runs left in the directory of a collection.
FilesOf(cache) ==
    [f \in Names |-> IF cache[f] \in {"cached", "norecord"}
                     THEN File(OldBody) ELSE NoFile]

\* What earlier runs left as the metadata file of a collection.
StoreOf(cache) ==
    IF \E f \in Names : cache[f] \in {"cached", "nofile"}
    THEN save([f \in Names |-> IF cache[f] \in {"cached", "nofile"}
                               THEN OldRec ELSE NoRec])
    ELSE NoStore

\* download_all going on to the next collection without awaiting the end of
\* download_collection.
NextCollection_NoAwait ==
    /\ phase \in {"gather", "saved", "returned"}
    /\ todo # <<>>
    /\ files' = Head(todo).files
    /\ todo' = Tail(todo)
    /\ coll' = coll + 1
    /\ phase' = "start"
    /\ disk' = StoreOf(Head(todo).cache)
    /\ Commit([sem |-> sem, csem |-> 0,
               data |-> [f \in Names |-> NoRec],
               finalf |-> FilesOf(Head(todo).cache),
               tmpf |-> [f \in Names |-> NoFile],
               stats |-> stats,
               pc |-> [t \in TaskIds |->
                         IF t <= Len(Head(todo).files) THEN "new" ELSE "done"],
               attempt |-> [t \in TaskIds |-> 0],
               cond |-> [t \in TaskIds |-> NoVal],
               hinfo |-> [t \in TaskIds |-> NoVal],
               rval |-> [t \in TaskIds |-> NoVal],
               body |-> [t \in TaskIds |-> <<>>],
               off |-> [t \in TaskIds |-> 0],
               fd |-> [t \in TaskIds |-> "none"],
               valid |-> [t \in TaskIds |-> FALSE],
               outcome |-> [t \in TaskIds |-> "none"],
               cause |-> [t \in TaskIds |-> "none"],
               nHead |-> [t \in TaskIds |-> 0],
               nGet |-> [t \in TaskIds |-> 0],
               delays |-> [t \in TaskIds |-> <<>>],
               saves |-> 0, gitignore |-> gitignore, workdir |-> workdir,
               exitcode |-> "none", report |-> "none",
               success_count |-> success_count, saveerr |-> saveerr])
    /\ UNCHANGED <<max_concurrent, force_download, server, run,
                   dry_run, validate_only, sources_dir, requested>>

\* download_collection has returned: the loop of download_all goes on to the
\* next collection, which has a directory and a metadata file of its own.
\* self.stats and self.semaphore are those of the downloader and stay.
NextCollection ==
    /\ phase \in {"loaded", "saved", "returned", "raised"}
    /\ todo # <<>>
    /\ Head(todo).form = "dict"
    /\ files' = Head(todo).files
    /\ todo' = Tail(todo)
    /\ coll' = coll + 1
    /\ phase' = "start"
    /\ disk' = StoreOf(Head(todo).cache)
    /\ Commit([sem |-> sem, csem |-> 0,
               data |-> [f \in Names |-> NoRec],
               finalf |-> FilesOf(Head(todo).cache),
               tmpf |-> [f \in Names |-> NoFile],
               stats |-> stats,
               pc |-> [t \in TaskIds |->
                         IF t <= Len(Head(todo).files) THEN "new" ELSE "done"],
               attempt |-> [t \in TaskIds |-> 0],
               cond |-> [t \in TaskIds |-> NoVal],
               hinfo |-> [t \in TaskIds |-> NoVal],
               rval |-> [t \in TaskIds |-> NoVal],
               body |-> [t \in TaskIds |-> <<>>],
               off |-> [t \in TaskIds |-> 0],
               fd |-> [t \in TaskIds |-> "none"],
               valid |-> [t \in TaskIds |-> FALSE],
               outcome |-> [t \in TaskIds |-> "none"],
               cause |-> [t \in TaskIds |-> "none"],
               nHead |-> [t \in TaskIds |-> 0],
               nGet |-> [t \in TaskIds |-> 0],
               delays |-> [t \in TaskIds |-> <<>>],
               saves |-> 0, gitignore |-> gitignore, workdir |-> workdir,
               exitcode |-> "none", report |-> "none",
               success_count |-> success_count, saveerr |-> saveerr])
    /\ UNCHANGED <<max_concurrent, force_download, server, run,
                   dry_run, validate_only, sources_dir, requested>>

NextAll ==
    \/ Next
    \/ NextCollection

NoCache == [f \in Names |-> "none"]

\* The collections after the first: one item, or none and then one item.  Each
\* is the mapping its definition file holds ("dict").
Todos ==
    { <<[files |-> <<[url |-> UrlT]>>, cache |-> NoCache, form |-> "dict"]>>,
      <<[files |-> <<>>, cache |-> NoCache, form |-> "dict"],
        [files |-> <<[url |-> UrlA]>>, cache |-> NoCache, form |-> "dict"]>> }

\* Two or three collections; the first has two items, of different names or
\* of the same name.
InitAll ==
    /\ max_concurrent \in 1..MaxConcurrent
    /\ force_download = FALSE
    /\ files \in { <<[url |-> UrlA], [url |-> UrlT]>>,
                   <<[url |-> UrlT], [url |-> UrlT2]>> }
    /\ todo \in Todos
    /\ server = AnyServer({"good"}, {NewVal})
    /\ \E cache \in [Names -> {"none", "cached"}] :
          /\ \A f \in Names : f \notin UsedNames(files) => cache[f] = "none"
          /\ InitDisk(cache)
    /\ InitTasks

SpecAll == InitAll /\ [][NextAll]_vars

\* ------------------------------------------------------------------------
\* main: the deadline of asyncio.wait_for
\* ------------------------------------------------------------------------
\* The deadline handled like the failure of an item: it is counted in errors
\* and the tasks are left as they were.
Timeout_AsItemFailure ==
    /\ phase = "gather"
    /\ phase' = "timedout"
    /\ disk' = save(data)
    /\ Commit([Snap EXCEPT
          !.stats.errors = @ + 1,
          !.saves = @ + 1,
          !.report = "timeout",
          !.exitcode = "1"])
    /\ UNCHANGED <<cfgvars, run>>

\* download_all is cancelled while a collection is being downloaded: every
\* task that is not done gets CancelledError at the await it is suspended in.
\* The `async with` blocks release the semaphores and close the staging handle;
\* `except Exception` does not catch CancelledError, so nothing is unlinked;
\* the finally clause of download_collection saves the metadata.
CancelAll(s) ==
    [s EXCEPT
          !.sem = max_concurrent,
          !.csem = Min(max_concurrent, Len(files)),
          !.pc = [t \in TaskIds |-> "done"],
          !.outcome = [t \in TaskIds |->
                         IF t \in Tasks /\ s.pc[t] # "done" THEN "Cancelled"
                         ELSE @[t]],
          !.cond = [t \in TaskIds |-> NoVal],
          !.hinfo = [t \in TaskIds |-> NoVal],
          !.rval = [t \in TaskIds |-> NoVal],
          !.body = [t \in TaskIds |-> <<>>],
          !.off = [t \in TaskIds |-> 0],
          !.fd = [t \in TaskIds |-> "none"],
          !.valid = [t \in TaskIds |-> FALSE],
          !.saves = @ + 1]

\* The deadline without the finally clause of download_collection.
Timeout_NoSave ==
    /\ phase = "gather"
    /\ phase' = "timedout"
    /\ disk' = disk
    /\ Commit([CancelAll(Snap) EXCEPT !.saves = saves, !.report = "timeout",
                                      !.exitcode = "1"])
    /\ UNCHANGED <<cfgvars, run>>

\* The deadline passes while a collection is being downloaded.  wait_for
\* raises TimeoutError, run_downloader passes it on, and main prints the
\* timeout message and exits with status 1.
Timeout ==
    /\ phase = "gather"
    /\ phase' = "timedout"
    /\ disk' = save(data)
    /\ Commit([CancelAll(Snap) EXCEPT !.report = "timeout", !.exitcode = "1"])
    /\ UNCHANGED <<cfgvars, run>>

NextDeadline ==
    \/ Next
    \/ Timeout

InitDeadline ==
    InitWith(1..MaxConcurrent, {FALSE},
             {<<[url |-> UrlA], [url |-> UrlT]>>}, {"none", "cached"},
             AnyServer({"good", "malformed"}, {NewVal}))

SpecDeadline == InitDeadline /\ [][NextDeadline]_vars

\* ------------------------------------------------------------------------
\* Two runs against a server where nothing changes
\* ------------------------------------------------------------------------
\* Every resource has validators OldVal for good; a transfer may fail, but not
\* on the last attempt.
StableServer == [mode |-> "stable", kinds |-> {"good"}, vals |-> {OldVal}]

NextE2E ==
    \/ Next
    \/ Rerun

\* A collection of two items: one was fetched by an earlier run, one is new.
InitE2E ==
    /\ InitWith(1..MaxConcurrent, {FALSE},
                {<<[url |-> UrlA], [url |-> UrlT]>>,
                 <<[url |-> UrlT], [url |-> UrlA]>>}, {"none", "cached"},
                StableServer)
    /\ Cardinality({f \in Names : finalf[f].exists}) = 1

\* The event loop runs whatever is ready, and the program is started again
\* after it has ended.
SpecE2E == InitE2E /\ [][NextE2E]_vars /\ WF_vars(NextE2E)

\* ------------------------------------------------------------------------
\* C1
\* ------------------------------------------------------------------------
\* A task is running once it is inside the collection gate and not done.
Running(t) == t \in Tasks /\ pc[t] \notin {"new", "wait_coll", "done"}
\* A task is blocked on self.semaphore when it waits and no slot is free.
BlockedOnGlobal(t) == pc[t] \in {"wait_glob", "wait_probe"} /\ sem = 0

\* C1: progress of a collection.  No state is reachable in which tasks are
\* running and every running task is blocked waiting for a slot of the global
\* semaphore (from such a state no item task reaches a terminal outcome).
C1_NoGlobalBlock ==
    ~ ( /\ phase = "gather"
        /\ \E t \in TaskIds : Running(t)
        /\ \A t \in TaskIds : Running(t) => BlockedOnGlobal(t) )

\* ------------------------------------------------------------------------
\* C2
\* ------------------------------------------------------------------------
\* Slots of self.semaphore a task holds: one inside download_file's
\* `async with`, a second one while its probe is in flight.
Held(t) ==
    IF pc[t] = "head" THEN 2
    ELSE IF pc[t] \in {"wait_probe", "get", "stream", "closed", "validated"} THEN 1
    ELSE 0

RECURSIVE SumHeld(_)
SumHeld(n) == IF n = 0 THEN 0 ELSE Held(n) + SumHeld(n - 1)
SlotsHeld == SumHeld(Cardinality(TaskIds))

\* C2: the slots of the global semaphore acquired at the same time, by probes
\* and transfers of all tasks together, never exceed max_concurrent, and the
\* semaphore's counter accounts for exactly these slots.
C2_ConcurrencyBound ==
    /\ SlotsHeld <= max_concurrent
    /\ sem = max_concurrent - SlotsHeld

\* Every slot is taken while a second item is still waiting: the collection
\* has more items than max_concurrent.
C2_Witness ==
    /\ Len(files) > max_concurrent
    /\ SlotsHeld = max_concurrent
    /\ \E t \in Tasks : pc[t] = "get"
    /\ \E t \in Tasks : pc[t] = "wait_coll"

\* ------------------------------------------------------------------------
\* C3
\* ------------------------------------------------------------------------
\* The file at a final path has the digest its record holds.
MatchesRecord(file, rec) ==
    /\ rec.present
    /\ rec.hash = Sha256(file.content)

\* C3: at-most-one-write.  Once a run has run to completion (a first run, or
\* the run after an interrupted one), every final path either does not exist
\* or holds bytes whose SHA-256 digest is the hash of the saved metadata
\* record of that filename.
C3_AtMostOneWrite ==
    phase = "saved" =>
        \A f \in Names : finalf[f].exists => MatchesRecord(finalf[f], load(disk)[f])

\* ------------------------------------------------------------------------
\* C4
\* ------------------------------------------------------------------------
\* A text some response was streamed to its end: every chunk of one body.
Complete(content) ==
    \/ content = <<>>
    \/ /\ Len(content) = NChunks
       /\ \A i \in 1..NChunks : content[i] = content[1] /\ content[i] # Hole

\* C4: no partial file at a final path.  Under every interleaving of the item
\* tasks, also of two items with the same filename, the file at a final path
\* is a completely streamed body and no task is still writing to it.
C4_NoPartialAtFinal ==
    \A f \in Names :
        finalf[f].exists =>
            /\ Complete(finalf[f].content)
            /\ \A t \in Tasks : Fname(t) = f => fd[t] # "final"

\* ------------------------------------------------------------------------
\* C5
\* ------------------------------------------------------------------------
\* The probe of task t is answered with status st in this step.
ProbeAnswered(t, st) ==
    /\ phase = "gather" /\ pc[t] = "head"
    /\ \E r \in HeadResponses(t) : r.status = st /\ Commit(AfterHead(Snap, t, r))

\* C5: skip correctness.  A step in which the conditional probe of an item is
\* answered 304 ends the item as Skipped, issues no GET (none at all when the
\* probe belongs to the first attempt), and leaves every final file, every
\* staging file and every metadata record as it was.
C5_SkipCorrect ==
    [][\A t \in Tasks :
         ProbeAnswered(t, "304") =>
            /\ pc'[t] = "done" /\ outcome'[t] = "Skipped"
            /\ nGet'[t] = nGet[t]
            /\ (attempt[t] = 0 => nGet'[t] = 0)
            /\ stats'.skipped = stats.skipped + 1
            /\ stats'.downloaded = stats.downloaded
            /\ finalf' = finalf /\ tmpf' = tmpf /\ data' = data]_vars

\* An item with a local file and a record with etag E1 was probed once, was
\* answered 304 and is Skipped, with file and record as the earlier run left
\* them.
C5_Witness ==
    /\ ~force_download
    /\ \E t \in Tasks :
          /\ outcome[t] = "Skipped" /\ nHead[t] = 1 /\ nGet[t] = 0
          /\ data[Fname(t)] = OldRec /\ OldRec.etag = "E1"
          /\ finalf[Fname(t)] = File(OldBody)
          /\ ~tmpf[Fname(t)].exists

\* ------------------------------------------------------------------------
\* C6
\* ------------------------------------------------------------------------
\* The task's attempt has gone to the transfer request.
InTransfer(t) == pc[t] \in {"get", "stream", "closed", "validated"}

\* C6: force override.  With force_download set no item is Skipped, no probe
\* is issued or waited for, and every attempt that entered the global gate
\* has issued its GET: the GETs of an item are as many as its attempts.
C6_ForceOverride ==
    force_download =>
        \A t \in Tasks :
            /\ outcome[t] # "Skipped"
            /\ nHead[t] = 0
            /\ pc[t] \notin {"head", "wait_probe"}
            /\ (pc[t] = "wait_glob" => nGet[t] = attempt[t])
            /\ (InTransfer(t) \/ pc[t] = "sleep"
                  \/ outcome[t] \in {"Downloaded", "Failed"})
               => nGet[t] = attempt[t] + 1

\* A cached item (file and record present before the run) was fetched again
\* under force_download and is Downloaded.
C6_Witness ==
    /\ force_download
    /\ phase = "gather"
    /\ \E t \in Tasks :
          /\ outcome[t] = "Downloaded" /\ nHead[t] = 0 /\ nGet[t] >= 1
          /\ load(disk)[Fname(t)] = OldRec
          /\ finalf[Fname(t)].content # OldBody

\* ------------------------------------------------------------------------
\* C7
\* ------------------------------------------------------------------------
\* C7: retry and backoff.  The delays an item has slept are RETRY_DELAY *
\* 2^(i-1) for i = 1, 2, ..., strictly increasing, at most RETRY_ATTEMPTS - 1
\* of them; an item that is Downloaded after k failed attempts has made k + 1
\* attempts (k + 1 GETs) and slept k delays; an item that is Failed has slept
\* RETRY_ATTEMPTS - 1 delays, none after its last attempt.
C7_RetryBackoff ==
    \A t \in Tasks :
        /\ Len(delays[t]) <= RETRY_ATTEMPTS - 1
        /\ \A i \in 1..Len(delays[t]) : delays[t][i] = RETRY_DELAY * (2 ^ (i - 1))
        /\ \A i \in 1..(Len(delays[t]) - 1) : delays[t][i] < delays[t][i + 1]
        /\ (pc[t] = "sleep" => Len(delays[t]) = attempt[t] + 1)
        /\ (outcome[t] = "Downloaded" =>
               /\ Len(delays[t]) = attempt[t]
               /\ nGet[t] = Len(delays[t]) + 1)
        /\ (outcome[t] = "Failed" =>
               /\ attempt[t] = RETRY_ATTEMPTS - 1
               /\ Len(delays[t]) = RETRY_ATTEMPTS - 1)

\* Two attempts failed, delays 1 and 2 were slept, the third attempt
\* succeeded.
C7_Witness ==
    \E t \in Tasks :
        /\ outcome[t] = "Downloaded"
        /\ delays[t] = <<1, 2>>
        /\ nGet[t] = 3

\* ------------------------------------------------------------------------
\* C8
\* ------------------------------------------------------------------------
\* The response declares more than MAX_FILE_SIZE bytes.
Oversize(r) ==
    r.status = "200" /\ r.content_length.given /\ r.content_length.n > MAX_FILE_SIZE

\* The GET of task t is answered with an oversize response in this step.
OversizeAnswered(t) ==
    /\ phase = "gather" /\ pc[t] = "get"
    /\ \E r \in GetResponses(t) : Oversize(r) /\ Commit(AfterGet(Snap, t, r))

\* C8: oversize rejection.  A step in which a GET is answered with a declared
\* Content-Length above MAX_FILE_SIZE ends the attempt as a failure: no chunk
\* is read, no staging file is there afterwards, final files and records are
\* as before, nothing is counted as downloaded, and the item goes to its
\* backoff sleep or, on the last attempt, ends Failed.
C8_OversizeRejected ==
    [][\A t \in Tasks :
         OversizeAnswered(t) =>
            /\ cause'[t] = "oversize"
            /\ body'[t] = <<>> /\ off'[t] = 0 /\ fd'[t] = "none"
            /\ ~tmpf'[Fname(t)].exists
            /\ finalf' = finalf /\ data' = data
            /\ stats'.downloaded = stats.downloaded
            /\ outcome'[t] # "Downloaded"
            /\ IF attempt[t] = RETRY_ATTEMPTS - 1
               THEN pc'[t] = "done" /\ outcome'[t] = "Failed"
                    /\ stats'.errors = stats.errors + 1
               ELSE pc'[t] = "sleep"]_vars

\* The last of three GETs of a cached item was rejected as oversize: the item
\* is Failed, and its file and record are those of the earlier run.
C8_Witness ==
    \E t \in Tasks :
        /\ outcome[t] = "Failed" /\ cause[t] = "oversize" /\ nGet[t] = 3
        /\ finalf[Fname(t)] = File(OldBody)
        /\ data[Fname(t)] = OldRec
        /\ ~tmpf[Fname(t)].exists

\* ------------------------------------------------------------------------
\* C9
\* ------------------------------------------------------------------------
\* What was sent as a body.
KindOf(chunks) == IF chunks = <<>> THEN "empty" ELSE chunks[1].kind

\* The bodies that are well-formed XML and not blank.
WellFormed(k) == k \in {"good", "nocat", "nopattern", "badroot"}

\* C9: validation gating.  Only '.aiml' targets are validated.  The verdict
\* on the body streamed for an item is "valid" exactly for the well-formed
\* documents (zero categories, a category without pattern and a root other
\* than aiml included) and "invalid" for a malformed, blank or empty body; an
\* invalid verdict fails the attempt as a validation failure and publishes
\* nothing; a valid verdict publishes the body and ends the item Downloaded;
\* the end of the stream of any other extension goes on without validation.
C9_ValidationGating ==
    [][\A t \in Tasks :
         /\ (pc'[t] = "validated" =>
                /\ Fname(t).suffix = ".aiml"
                /\ valid'[t] = WellFormed(KindOf(body'[t])))
         /\ (pc[t] = "validated" /\ pc'[t] # "validated" =>
                IF valid[t]
                THEN /\ outcome'[t] = "Downloaded"
                     /\ finalf'[Fname(t)] = File(body[t])
                     /\ stats'.validation_errors = stats.validation_errors
                ELSE /\ cause'[t] = "validation"
                     /\ outcome'[t] # "Downloaded"
                     /\ stats'.validation_errors = stats.validation_errors + 1
                     /\ finalf' = finalf /\ data' = data)
         /\ (pc[t] = "closed" /\ pc'[t] \notin {"closed", "validated"} =>
                /\ Fname(t).suffix # ".aiml"
                /\ stats'.validation_errors = stats.validation_errors
                /\ cause'[t] # "validation")]_vars

\* A well-formed document without any category was published for an '.aiml'
\* target after a malformed one had failed an earlier attempt as a validation
\* failure.
C9_Witness ==
    \E t \in Tasks :
        /\ Fname(t).suffix = ".aiml"
        /\ outcome[t] = "Downloaded"
        /\ KindOf(finalf[Fname(t)].content) = "nocat"
        /\ stats.validation_errors >= 1

\* ------------------------------------------------------------------------
\* C10
\* ------------------------------------------------------------------------
\* C10: end to end.  With one item cached and unchanged and one item new, the
\* first run ends with skipped = 1 and downloaded = 1 and saves a metadata
\* store of exactly 2 records, and the run after it ends with skipped = 2 and
\* downloaded = 0.
C10_EndToEnd ==
    /\ <>( /\ run = 1 /\ phase = "saved"
           /\ stats.skipped = 1 /\ stats.downloaded = 1
           /\ Cardinality(disk.text) = 2 )
    /\ <>( /\ run = 2 /\ phase = "saved"
           /\ stats.skipped = 2 /\ stats.downloaded = 0 )

\* ------------------------------------------------------------------------
\* C11
\* ------------------------------------------------------------------------
\* The items of the collection that ended with outcome out.
Ended(out) == {t \in Tasks : outcome[t] = out}

\* C11: statistics are updated once per terminal outcome.  downloaded, skipped
\* and errors count the items that ended Downloaded, Skipped and Failed, and
\* validation_errors counts at most one for each item that did not end
\* Downloaded, Skipped or rejected: an item adds neither several validation
\* errors nor a validation error and a download.
C11_StatsOncePerOutcome ==
    /\ stats.downloaded = Cardinality(Ended("Downloaded"))
    /\ stats.skipped = Cardinality(Ended("Skipped"))
    /\ stats.errors = Cardinality(Ended("Failed"))
    /\ stats.validation_errors <=
          Cardinality({t \in Tasks :
                          outcome[t] \notin {"Downloaded", "Skipped", "Invalid"}})

\* ------------------------------------------------------------------------
\* C12
\* ------------------------------------------------------------------------
\* C12: flush ordering.  A step that saves the metadata of the collection is
\* taken only when every item task of the collection has reached a terminal
\* outcome, it writes the in-memory store as it then is, and no later step of
\* the collection changes the in-memory store.
C12_FlushAfterSettle ==
    [][ /\ (saves' = saves + 1 =>
               /\ \A t \in Tasks : pc[t] = "done" /\ outcome[t] # "none"
               /\ load(disk') = data)
        /\ (saves >= 1 /\ saves' >= 1 => data' = data /\ pc' = pc) ]_vars

\* The store was saved after two items had settled, one Downloaded and one
\* Failed, and holds the record of the first.
C12_Witness ==
    /\ saves = 1 /\ phase = "saved"
    /\ \E t, u \in Tasks :
          /\ outcome[t] = "Downloaded" /\ outcome[u] = "Failed"
          /\ load(disk)[Fname(t)].present
          /\ load(disk)[Fname(t)].hash = Sha256(finalf[Fname(t)].content)

\* ------------------------------------------------------------------------
\* C13
\* ------------------------------------------------------------------------
\* C13: flush once per collection.  The metadata store of a collection is
\* never saved twice, and when download_collection has returned it has been
\* saved once, whatever the number of items of the collection.
C13_FlushOnce ==
    /\ saves <= 1
    /\ phase \in {"saved", "returned"} => saves = 1

\* ------------------------------------------------------------------------
\* C14
\* ------------------------------------------------------------------------
\* An attempt of task t ends with an exception in this step.
FailureStep(t) == cause[t] = "none" /\ cause'[t] # "none"

\* C14: failure isolation.  A step in which an attempt of one item fails, be
\* it the last attempt or not, leaves the collection running and leaves every
\* sibling task as it was: where it is, how it ended, the body it streams and
\* the staging file it has open.
C14_FailureIsolation ==
    [][\A t \in Tasks :
         FailureStep(t) =>
            /\ phase' = phase /\ todo' = todo /\ coll' = coll
            /\ \A u \in Tasks \ {t} :
                  /\ pc'[u] = pc[u] /\ outcome'[u] = outcome[u]
                  /\ body'[u] = body[u] /\ off'[u] = off[u]
                  /\ fd'[u] = fd[u]]_vars

\* ------------------------------------------------------------------------
\* C15
\* ------------------------------------------------------------------------
\* C15: staging exclusivity.  An open staging handle always points at the
\* file at the task's staging path (nobody else has deleted or renamed that
\* file), and no two tasks have the same staging file open at the same time.
C15_StagingExclusive ==
    /\ \A t \in Tasks : fd[t] \in {"none", "tmp"}
    /\ \A t, u \in Tasks :
          t # u /\ Fname(t) = Fname(u) => ~(fd[t] = "tmp" /\ fd[u] = "tmp")

\* ------------------------------------------------------------------------
\* C16
\* ------------------------------------------------------------------------
\* No attempt of task t is under way.
AttemptEnded(t) == pc[t] \in {"sleep", "done"}

\* The step publishes a file at a final path.
Published(f) == finalf'[f] # finalf[f]

\* C16: staging cleanup.  Once the attempts of all items have ended, by
\* success, by any failure or by cancellation at the deadline, no staging file
\* exists; and a file appears at a final path only in the step of a task of
\* that filename whose transfer is complete and, for an '.aiml' name, whose
\* validation has succeeded.
C16_StagingCleanup ==
    /\ [](phase # "start" /\ (\A t \in Tasks : AttemptEnded(t))
             => \A f \in Names : ~tmpf[f].exists)
    /\ [][\A f \in Names :
            Published(f) =>
               \E t \in Tasks :
                  /\ Fname(t) = f /\ outcome'[t] = "Downloaded"
                  /\ IF f.suffix = ".aiml"
                     THEN pc[t] = "validated" /\ valid[t]
                     ELSE pc[t] = "closed"]_vars

\* ------------------------------------------------------------------------
\* C17
\* ------------------------------------------------------------------------
\* Task t enters check_file_needs_download in this step.
EntersCheck(t) ==
    /\ pc[t] \in {"new", "wait_coll", "wait_glob", "sleep"}
    /\ pc'[t] \in {"get", "head", "wait_probe"}

C18_ProbeFailureDegrades ==
    [][\A t \in Tasks :
         ProbeAnswered(t, "other") \/ ProbeAnswered(t, "error") =>
            /\ pc'[t] = "get" /\ nGet'[t] = nGet[t] + 1
            /\ hinfo'[t] = NoVal
            /\ sem' = sem + 1
            /\ attempt'[t] = attempt[t]
            /\ cause'[t] = "none" /\ outcome'[t] = "none"
            /\ delays' = delays /\ stats' = stats
            /\ finalf' = finalf /\ tmpf' = tmpf /\ data' = data]_vars

\* The first attempt of a cached item is at its GET after a probe that
\* brought no validators (every 200 of this server carries validators).
C18_Witness ==
    /\ server.vals = {NewVal}
    /\ \E t \in Tasks :
          /\ pc[t] = "get" /\ attempt[t] = 0
          /\ nHead[t] = 1 /\ nGet[t] = 1
          /\ hinfo[t] = NoVal

\* ------------------------------------------------------------------------
\* C19
\* ------------------------------------------------------------------------
\* The staging file of filename f is renamed to the final path in this step.
Renamed(f) == tmpf[f].exists /\ ~tmpf'[f].exists /\ finalf'[f] = tmpf[f]

\* Task t ends Downloaded in this step.
Publishes(t) ==
    pc[t] \in {"closed", "validated"} /\ outcome'[t] = "Downloaded"

\* C19: the record invariant.  While a collection is downloaded the in-memory
\* store changes only in the step of a task that renames its staging file and
\* ends Downloaded, and only in the record of that filename, which gets the
\* digest and size of the body the task streamed; every step in which a task
\* ends Downloaded renames the staging file and writes the record in the same
\* step, so no state shows the renamed file with the record as it was; a
\* step in which an attempt fails or the item is skipped leaves the store as
\* it is.
C19_RecordInvariant ==
    [][phase = "gather" /\ phase' = "gather" =>
         /\ (data' # data =>
                \E t \in Tasks :
                   /\ Publishes(t) /\ Renamed(Fname(t))
                   /\ data' = [data EXCEPT ![Fname(t)] =
                                  Rec(Or(rval[t].etag, hinfo[t].etag),
                                      Or(rval[t].last_modified,
                                         hinfo[t].last_modified),
                                      Sha256(body[t]), Len(body[t]))])
         /\ (\A t \in Tasks :
                Publishes(t) =>
                   /\ Renamed(Fname(t))
                   /\ data'[Fname(t)].present
                   /\ data'[Fname(t)].hash = Sha256(body[t]))
         /\ (\A t \in Tasks :
                FailureStep(t) \/ (outcome[t] = "none" /\ outcome'[t] = "Skipped")
                   => data' = data)]_vars

\* An item is Downloaded while its sibling is still under way: the file at
\* the final path has the digest of the in-memory record, which has not been
\* saved yet.
C19_Witness ==
    \E t, u \in Tasks :
        /\ outcome[t] = "Downloaded" /\ pc[u] \in {"get", "stream", "head"}
        /\ data[Fname(t)].present
        /\ data[Fname(t)].hash = Sha256(finalf[Fname(t)].content)
        /\ data[Fname(t)] # load(disk)[Fname(t)]

\* ------------------------------------------------------------------------
\* C20
\* ------------------------------------------------------------------------
\* An item task is between its start and its end.
InFlight(t) == pc[t] \notin {"new", "done"}

\* C20: collections are processed one after another.  Item tasks are in
\* flight only while their collection is being gathered, and the step that
\* goes on to collection k+1 is taken only when download_collection has
\* returned for collection k: every item task of k is done, its metadata has
\* been saved (a collection with items is saved once), and no task of k+1 has
\* started in that step.
C20_Sequential ==
    /\ [](\A t \in Tasks : InFlight(t) => phase = "gather")
    /\ [][coll' # coll =>
            /\ coll' = coll + 1
            /\ phase \in {"saved", "returned"}
            /\ \A t \in Tasks : pc[t] = "done"
            /\ (Len(files) > 0 => saves = 1)
            /\ \A t \in TaskIds : ~InFlight(t)']_vars

\* An item of the second collection is in flight after the first collection
\* has downloaded an item and returned.
C20_Witness ==
    /\ coll = 2 /\ phase = "gather"
    /\ stats.downloaded >= 1
    /\ \E t \in Tasks : pc[t] = "get" /\ nGet[t] = 1

\* ------------------------------------------------------------------------
\* The deadline over a run of several collections
\* ------------------------------------------------------------------------
\* The deadline passes while download_all sleeps between two collections, or
\* after the last: no task exists, no finally clause has anything to save.
TimeoutBetween ==
    /\ phase \in {"saved", "returned"}
    /\ phase' = "timedout"
    /\ Commit([Snap EXCEPT !.report = "timeout", !.exitcode = "1"])
    /\ UNCHANGED <<cfgvars, run, disk>>

NextDeadlineAll ==
    \/ NextAll
    \/ Timeout
    \/ TimeoutBetween

SpecDeadlineAll == InitAll /\ [][NextDeadlineAll]_vars

\* C21: when the deadline expires while download_all runs, the run ends with
\* the timeout report and exit status 1, the errors counter is not
\* incremented, every item task is over, no request is issued by the step, the
\* collections still to do stay undone, and nothing at all happens afterwards.
C21_GlobalDeadline ==
    [][ /\ phase # "timedout"
        /\ phase' = "timedout" =>
              /\ stats'.errors = stats.errors
              /\ exitcode' = "1"
              /\ report' = "timeout"
              /\ todo' = todo
              /\ coll' = coll
              /\ nHead' = nHead
              /\ nGet' = nGet
              /\ \A t \in TaskIds : pc'[t] = "done" ]_vars

\* C21: the deadline has cancelled an item of a collection that is not the
\* last one.
C21_Witness ==
    /\ phase = "timedout"
    /\ todo # <<>>
    /\ exitcode = "1"
    /\ \E t \in Tasks : outcome[t] = "Cancelled"

\* ------------------------------------------------------------------------
\* One collection over every state of its metadata file
\* ------------------------------------------------------------------------
\* a.aiml and t.txt; a.aiml may have been published by an earlier run.  The
\* metadata file is absent, holds the record of a.aiml, or is damaged.
InitStore ==
    /\ max_concurrent \in 1..MaxConcurrent
    /\ force_download \in BOOLEAN
    /\ files = <<[url |-> UrlA], [url |-> UrlT]>>
    /\ todo = <<>>
    /\ server = AnyServer({"good", "malformed"}, {NewVal})
    /\ finalf \in {[f \in Names |-> NoFile],
                   [f \in Names |-> IF f = FA THEN File(OldBody) ELSE NoFile]}
    /\ disk \in {NoStore, save([f \in Names |-> IF f = FA THEN OldRec ELSE NoRec])}
                  \cup {Damaged(form) : form \in StoreForms \ {"object"}}
    /\ InitTasks

SpecStore == InitStore /\ [][Next]_vars

\* C22: whatever the metadata file holds, download_collection gets past the
\* construction of FileMetadata and launches the items, and a file that is not
\* a JSON object gives an empty store.
C22_LoadNeverFails ==
    [][ phase = "start" /\ files # <<>> =>
            /\ phase' = "gather"
            /\ \A t \in Tasks : pc'[t] # "new"
            /\ disk.exists /\ disk.form # "object" =>
                   \A f \in Names : ~data'[f].present ]_vars

\* ------------------------------------------------------------------------
\* main: the command line, the definition files, the exit status
\* ------------------------------------------------------------------------
\* What yaml.safe_load makes of a definition file: a mapping with its files
\* list ("dict"), nothing for an empty document ("empty"), a YAML sequence
\* ("list"); or the file is not YAML ("unparseable") or cannot be opened
\* ("unreadable").
DocForms == {"dict", "empty", "list", "unparseable", "unreadable"}

Dict(fs) == [form |-> "dict", files |-> fs]

Doc(form) == [form |-> form, files |-> <<>>]

\* The loop of load_source_files over SOURCES_DIR.glob("*.yaml"): a name that
\* was not asked for is passed over, yaml.YAMLError is reported and the file
\* passed over, any other exception leaves the function, and whatever
\* safe_load returns is stored under the file's stem.
RECURSIVE LoadDefs(_, _, _)
LoadDefs(defs, collections, sources) ==
    IF defs = <<>> THEN [raised |-> "none", sources |-> sources]
    ELSE LET d == Head(defs)
         IN IF collections # {} /\ d.name \notin collections
            THEN LoadDefs(Tail(defs), collections, sources)
            ELSE IF d.doc.form = "unreadable"
            THEN [raised |-> "OSError", sources |-> <<>>]
            ELSE IF d.doc.form = "unparseable"
            THEN LoadDefs(Tail(defs), collections, sources)
            ELSE LoadDefs(Tail(defs), collections,
                          Append(sources, [name |-> d.name, data |-> d.doc,
                                           left |-> d.left]))

\* AIMLDownloader.load_source_files
load_source_files(dir, collections) ==
    IF ~dir.exists THEN [raised |-> "DownloadError", sources |-> <<>>]
    ELSE LET r == LoadDefs(dir.defs, collections, <<>>)
         IN IF r.raised = "none" /\ r.sources = <<>>
            THEN [raised |-> "DownloadError", sources |-> <<>>]
            ELSE r

\* data.get('files', []) for every loaded definition, as the dry-run report,
\* validate_existing_files and print_summary do: None and a list have no get.
GetFilesRaises(sources) ==
    \E i \in 1..Len(sources) : sources[i].data.form # "dict"

\* create_gitignore: the file is created with the entry, or the entry is
\* appended to a file that does not have it.
create_gitignore(g) ==
    IF g = "absent" THEN "entry"
    ELSE IF g = "other" THEN "other_entry"
    ELSE g

\* The states of .gitignore: absent, without the entry, with it.
GitIgnores == {"absent", "other", "entry", "other_entry"}

\* The collections of download_all's loop, in the order of the mapping.
Collections(sources) ==
    [i \in 1..Len(sources) |->
        [files |-> sources[i].data.files, cache |-> sources[i].left,
         form |-> sources[i].data.form]]

\* main up to the first await of download_all, or to the end of the process
\* in the modes without downloads.  create_gitignore is called before the
\* mode is looked at.  Whatever leaves run_downloader is printed and the exit
\* status is 1.
Main ==
    /\ phase = "main"
    /\ LET g == create_gitignore(gitignore)
           r == load_source_files(sources_dir, requested)
           failed == r.raised # "none" \/ GetFilesRaises(r.sources)
       IN IF dry_run \/ validate_only
          THEN /\ phase' = "exited"
               /\ todo' = todo
               /\ Commit([Snap EXCEPT
                     !.gitignore = g,
                     !.report = IF failed THEN "failed"
                                ELSE IF dry_run THEN "dryrun" ELSE "validated",
                     !.exitcode = IF failed THEN "1" ELSE "0"])
          ELSE IF r.raised # "none"
          THEN /\ phase' = "exited"
               /\ todo' = todo
               /\ Commit([Snap EXCEPT !.gitignore = g, !.workdir = TRUE,
                                      !.report = "failed", !.exitcode = "1"])
          ELSE /\ phase' = "loaded"
               /\ todo' = Collections(r.sources)
               /\ Commit([Snap EXCEPT !.gitignore = g, !.workdir = TRUE])
    /\ UNCHANGED <<max_concurrent, force_download, files, server, coll,
                   dry_run, validate_only, sources_dir, requested, run, disk>>

\* The loop of download_all reaches a definition that is not a mapping:
\* collection_data.get raises in download_collection, the loop reports the
\* collection as failed and goes on.
CollectionRaises ==
    /\ phase \in {"loaded", "saved", "returned", "raised"}
    /\ todo # <<>>
    /\ Head(todo).form # "dict"
    /\ todo' = Tail(todo)
    /\ coll' = coll + 1
    /\ phase' = "raised"
    /\ Commit(Snap)
    /\ UNCHANGED <<max_concurrent, force_download, files, server,
                   dry_run, validate_only, sources_dir, requested, run, disk>>

\* Exit turning counted item errors into a failure of the process.
Exit_ErrorsFail ==
    /\ phase \in {"loaded", "saved", "returned", "raised"}
    /\ todo = <<>>
    /\ phase' = "exited"
    /\ LET r == load_source_files(sources_dir, requested)
           failed == GetFilesRaises(r.sources) \/ stats.errors > 0
       IN Commit([Snap EXCEPT
             !.report = IF failed THEN "failed" ELSE "completed",
             !.exitcode = IF failed THEN "1" ELSE "0"])
    /\ UNCHANGED <<cfgvars, run, disk>>

\* download_all after its loop: print_summary, outside every try statement of
\* download_all, then main's last message.
Exit ==
    /\ phase \in {"loaded", "saved", "returned", "raised"}
    /\ todo = <<>>
    /\ phase' = "exited"
    /\ LET r == load_source_files(sources_dir, requested)
           failed == GetFilesRaises(r.sources)
       IN Commit([Snap EXCEPT
             !.report = IF failed THEN "failed" ELSE "completed",
             !.exitcode = IF failed THEN "1" ELSE "0"])
    /\ UNCHANGED <<cfgvars, run, disk>>

\* SIGINT or SIGTERM while download_all runs: signal_handler calls
\* sys.exit(1); asyncio.run cancels the tasks on its way out.
Signal ==
    /\ phase \in {"gather", "saved", "returned"}
    /\ phase' = "interrupted"
    /\ IF phase = "gather"
       THEN /\ disk' = save(data)
            /\ Commit([CancelAll(Snap) EXCEPT !.report = "interrupted",
                                              !.exitcode = "1"])
       ELSE /\ disk' = disk
            /\ Commit([Snap EXCEPT !.report = "interrupted",
                                   !.exitcode = "1"])
    /\ UNCHANGED <<cfgvars, run>>

NextMain ==
    \/ Main
    \/ NextCollection
    \/ CollectionRaises
    \/ Next
    \/ Exit
    \/ Signal
    \/ Timeout
    \/ TimeoutBetween

\* The definitions a file of SOURCES_DIR can hold.
Docs ==
    {Dict(<<[url |-> UrlA]>>), Dict(<<>>)}
        \cup {Doc(form) : form \in DocForms \ {"dict"}}

\* A definition file, with what earlier runs left of its collection.
Def(n, d, cache) == [name |-> n, doc |-> d, left |-> cache]

\* Both items of a collection were published and recorded by an earlier run,
\* or the second only.
AllCached == [f \in Names |-> "cached"]

SecondCached == [f \in Names |-> IF f = FT THEN "cached" ELSE "none"]

\* SOURCES_DIR: absent, empty, or with alice.yaml, std.yaml or both; and
\* alice.yaml with two items that an earlier run fetched.
SourceDirs ==
    {[exists |-> FALSE, defs |-> <<>>], [exists |-> TRUE, defs |-> <<>>]}
        \cup {[exists |-> TRUE, defs |-> <<Def(n, d, NoCache)>>] :
                 n \in {"alice", "std"}, d \in Docs}
        \cup {[exists |-> TRUE,
               defs |-> <<Def("alice", d1, NoCache),
                          Def("std", d2, NoCache)>>] :
                 d1 \in Docs, d2 \in Docs}
        \cup {[exists |-> TRUE,
               defs |-> <<Def("alice",
                              Dict(<<[url |-> UrlA], [url |-> UrlT]>>),
                              cache)>>] : cache \in {AllCached, SecondCached}}

\* The names on the command line: none, one, two.
Requests == {{}, {"alice"}, {"other"}, {"alice", "other"}, {"alice", "std"}}

\* A new process, before main has done anything; nothing was downloaded yet.
InitMain ==
    /\ max_concurrent \in 1..MaxConcurrent
    /\ force_download = FALSE
    /\ dry_run \in BOOLEAN
    /\ validate_only \in BOOLEAN
    /\ sources_dir \in SourceDirs
    /\ requested \in Requests
    /\ gitignore \in GitIgnores
    /\ workdir \in BOOLEAN
    /\ files = <<>>
    /\ todo = <<>>
    /\ server = AnyServer({"good"}, {NewVal})
    /\ phase = "main"
    /\ run = 1
    /\ coll = 0
    /\ disk = NoStore
    /\ sem = max_concurrent
    /\ csem = 0
    /\ data = [f \in Names |-> NoRec]
    /\ finalf = [f \in Names |-> NoFile]
    /\ tmpf = [f \in Names |-> NoFile]
    /\ stats = ZeroStats
    /\ pc = [t \in TaskIds |-> "done"]
    /\ attempt = [t \in TaskIds |-> 0]
    /\ cond = [t \in TaskIds |-> NoVal]
    /\ hinfo = [t \in TaskIds |-> NoVal]
    /\ rval = [t \in TaskIds |-> NoVal]
    /\ body = [t \in TaskIds |-> <<>>]
    /\ off = [t \in TaskIds |-> 0]
    /\ fd = [t \in TaskIds |-> "none"]
    /\ valid = [t \in TaskIds |-> FALSE]
    /\ outcome = [t \in TaskIds |-> "none"]
    /\ cause = [t \in TaskIds |-> "none"]
    /\ nHead = [t \in TaskIds |-> 0]
    /\ nGet = [t \in TaskIds |-> 0]
    /\ delays = [t \in TaskIds |-> <<>>]
    /\ saves = 0
    /\ exitcode = "none"
    /\ report = "none"
    /\ success_count = 0
    /\ saveerr = 0

SpecMain == InitMain /\ [][NextMain]_vars

\* The names asked for on the command line that no definition file has.
MissingRequested ==
    {n \in requested :
        \A i \in 1..Len(sources_dir.defs) : sources_dir.defs[i].name # n}

\* No definition file that was asked for could be parsed.
NoneLoaded ==
    \A i \in 1..Len(sources_dir.defs) :
        (requested = {} \/ sources_dir.defs[i].name \in requested)
            => sources_dir.defs[i].doc.form = "unparseable"

\* C23: once main has loaded the definitions, the process has ended with the
\* failure report and exit status 1 if the sources directory is absent, if no
\* definition was loaded, or if a requested name has no definition file.
C23_ConfigurationError ==
    phase # "main" /\ (\/ ~sources_dir.exists
                       \/ NoneLoaded
                       \/ MissingRequested # {})
        => phase = "exited" /\ report = "failed" /\ exitcode = "1"

\* A definition file that was asked for.
Selected(i) == requested = {} \/ sources_dir.defs[i].name \in requested

\* C24: once main has loaded the definitions, and the sources directory
\* holds a valid definition that was asked for, the definitions that are not valid are left out of the loaded mapping
\* and the load succeeds, and a run that ends by itself ends with a success
\* report and exit status 0.
C24_MalformedSkipped ==
    /\ phase # "main"
    /\ sources_dir.exists
    /\ MissingRequested = {}
    /\ \E i \in 1..Len(sources_dir.defs) :
          Selected(i) /\ sources_dir.defs[i].doc.form = "dict"
    => LET r == load_source_files(sources_dir, requested)
       IN /\ r.raised = "none"
          /\ \A i \in 1..Len(r.sources) : r.sources[i].data.form = "dict"
          /\ phase = "exited" =>
                 report \in {"completed", "dryrun", "validated"}
                     /\ exitcode = "0"


\* ------------------------------------------------------------------------
\* C25: whatever made an attempt fail, the item sleeps and tries again if the
\* attempt was not the last of RETRY_ATTEMPTS, and ends Failed with errors
\* incremented by one if it was; an item ends Failed in no other way, after
\* RETRY_ATTEMPTS - 1 earlier failures; errors changes in no other step; and
\* the step leaves the collection running and the process alive.
C25_RetryBudget ==
    [][ /\ \A t \in Tasks :
            /\ FailureStep(t) =>
                  /\ cause'[t] \in {"request", "status", "oversize", "stream",
                                    "rename", "validation"}
                  /\ IF attempt[t] < RETRY_ATTEMPTS - 1
                     THEN /\ pc'[t] = "sleep"
                          /\ outcome'[t] = "none"
                          /\ stats'.errors = stats.errors
                     ELSE /\ outcome'[t] = "Failed"
                          /\ stats'.errors = stats.errors + 1
                  /\ phase' = phase
                  /\ exitcode' = "none"
            /\ outcome[t] # "Failed" /\ outcome'[t] = "Failed" =>
                  /\ FailureStep(t)
                  /\ attempt[t] = RETRY_ATTEMPTS - 1
                  /\ Len(delays[t]) = RETRY_ATTEMPTS - 1
        /\ stats'.errors # stats.errors =>
              \E t \in Tasks : outcome[t] # "Failed" /\ outcome'[t] = "Failed"
      ]_vars

\* C25: an item ended Failed on a third attempt that failed validation, with
\* one error counted and the collection still running.
C25_Witness ==
    \E t \in Tasks :
        /\ outcome[t] = "Failed"
        /\ cause[t] = "validation"
        /\ attempt[t] = RETRY_ATTEMPTS - 1
        /\ stats.errors = 1
        /\ phase = "gather"

\* ------------------------------------------------------------------------
\* temp_path of download_file: the final name with '.tmp' appended.  Neither
\* the attempt nor the run enters the name.
temp_path(t) == [Fname(t) EXCEPT !.suffix = @ \o ".tmp"]

\* C26: an attempt opens its staging file under a name that no file has, so a
\* staging file left by an interrupted run is not opened again.
C26_FreshStagingNames ==
    [][ \A t \in Tasks :
            fd[t] # "tmp" /\ fd'[t] = "tmp" => ~tmpf[Fname(t)].exists ]_vars


\* ------------------------------------------------------------------------
\* The item tasks inside `async with semaphore` of download_with_semaphore.
InsideGate == {t \in Tasks : pc[t] \notin {"new", "wait_coll", "done"}}

\* C27: the item tasks inside the collection semaphore are never more than
\* min(max_concurrent, number of items), and while the collection is being
\* downloaded the semaphore's counter accounts for exactly these tasks.
C27_CollectionGate ==
    /\ Cardinality(InsideGate) <= Min(max_concurrent, Len(files))
    /\ phase = "gather" =>
           csem = Min(max_concurrent, Len(files)) - Cardinality(InsideGate)

\* C27: the collection has more items than max_concurrent; the first item is
\* over and the second, which had to wait at the gate, is being transferred.
C27_Witness ==
    /\ Len(files) > max_concurrent
    /\ csem = 0
    /\ \E t \in Tasks : outcome[t] = "Downloaded"
    /\ \E t \in Tasks : pc[t] = "stream"

\* ------------------------------------------------------------------------
\* Validators of every shape
\* ------------------------------------------------------------------------
\* What the ETag and Last-Modified headers of a response can be: both absent,
\* an ETag header with an empty value, both given, an ETag alone.
HeaderVals ==
    {NoVal, [etag |-> "", last_modified |-> None], NewVal,
     [etag |-> "E3", last_modified |-> None]}

\* a.aiml and t.txt, each fetched by an earlier run or not; probe and GET
\* answer with any of the header values.
InitValidators ==
    InitWith(1..MaxConcurrent, {FALSE}, {<<[url |-> UrlA], [url |-> UrlT]>>},
             {"none", "cached"}, AnyServer({"good"}, HeaderVals))

SpecValidators == InitValidators /\ [][Next]_vars

\* The value the record gets from the header g of the GET and the header h of
\* the probe when "present" is read as "the header is in the response".
AdoptPresent(g, h) == IF g # None THEN g ELSE h

\* The same when "present" is read as "in the response and not empty".
AdoptNonEmpty(g, h) == IF g # None /\ g # "" THEN g ELSE h

\* The probe's validators are set only by the 200 answer of a probe, in the
\* step that issues the GET of the same attempt, and are gone when the
\* attempt is over or a new probe is under way.
ProbeOfSameAttempt(t) ==
    /\ hinfo'[t] # hinfo[t] /\ hinfo'[t] # NoVal =>
           pc[t] = "head" /\ pc'[t] = "get" /\ attempt'[t] = attempt[t]
    /\ pc'[t] \in {"sleep", "wait_glob", "wait_probe", "head", "done"} =>
           hinfo'[t] = NoVal
    /\ attempt'[t] # attempt[t] => hinfo[t] = NoVal

\* C28 as stated: a Downloaded item's record has the etag (last_modified) of
\* the GET when the header is present, otherwise that of the 200 probe of the
\* same attempt, otherwise null.
C28_AdoptionWhenPresent ==
    [][ \A t \in Tasks :
           /\ Publishes(t) =>
                 /\ data'[Fname(t)].etag =
                        AdoptPresent(rval[t].etag, hinfo[t].etag)
                 /\ data'[Fname(t)].last_modified =
                        AdoptPresent(rval[t].last_modified,
                                     hinfo[t].last_modified)
           /\ ProbeOfSameAttempt(t) ]_vars

\* C28, amended: a Downloaded item's record has the etag (last_modified) of
\* the GET when the header is present and not empty, otherwise that of the 200
\* probe of the same attempt, otherwise null; validators of a probe of an
\* earlier attempt are never used.
C28_ValidatorAdoption ==
    [][ \A t \in Tasks :
           /\ Publishes(t) =>
                 /\ data'[Fname(t)].etag =
                        AdoptNonEmpty(rval[t].etag, hinfo[t].etag)
                 /\ data'[Fname(t)].last_modified =
                        AdoptNonEmpty(rval[t].last_modified,
                                      hinfo[t].last_modified)
           /\ ProbeOfSameAttempt(t) ]_vars

\* C28: an item was Downloaded on its second attempt with the ETag of the GET
\* and, the GET having no Last-Modified, the Last-Modified of the probe.
C28_Witness ==
    \E t \in Tasks :
        /\ outcome[t] = "Downloaded"
        /\ attempt[t] = 1
        /\ nHead[t] = 2
        /\ data[Fname(t)].etag = "E3"
        /\ data[Fname(t)].last_modified = "L2"

\* ------------------------------------------------------------------------
\* C29: with --dry-run no step issues a request and no step creates, changes
\* or removes a file or a directory; the run only reports.
C29_DryRunNoSideEffects ==
    [][ dry_run =>
           /\ nHead' = nHead
           /\ nGet' = nGet
           /\ finalf' = finalf
           /\ tmpf' = tmpf
           /\ disk' = disk
           /\ workdir' = workdir
           /\ gitignore' = gitignore ]_vars


\* ------------------------------------------------------------------------
\* An exception leaves run_downloader: the load of the definitions raised, or
\* a loaded definition that is not a mapping was asked for its files.
UnhandledFailure ==
    LET r == load_source_files(sources_dir, requested)
    IN r.raised # "none" \/ GetFilesRaises(r.sources)

\* C30: the process has an exit status exactly when it has ended; the status
\* is 1 when the run ended by the deadline, by a signal or by an exception
\* that left run_downloader, a configuration error included, and 0 otherwise,
\* whatever happened to the items.
C30_ExitStatus ==
    /\ exitcode \in {"none", "0", "1"}
    /\ exitcode # "none" <=> phase \in {"exited", "timedout", "interrupted"}
    /\ exitcode # "none" =>
          (exitcode = "1" <=>
              \/ phase = "timedout"
              \/ phase = "interrupted"
              \/ UnhandledFailure)

\* C30: a run in which an item ended Failed has completed with status 0.
C30_Witness ==
    /\ phase = "exited"
    /\ exitcode = "0"
    /\ report = "completed"
    /\ stats.errors > 0

\* ------------------------------------------------------------------------
\* Several collections on a disk where the metadata cannot always be written
\* ------------------------------------------------------------------------
NextSaveFails ==
    \/ NextAll
    \/ GatherReturnsSaveFails

SpecSaveFails == InitAll /\ [][NextSaveFails]_vars

\* C31: the step in which metadata.save() raises prints the warning and
\* nothing else happens to the run: download_collection has returned True
\* (the collection is counted as processed), the outcomes and the counters of
\* the items are what they were, the process goes on; and whenever a
\* collection is over and another one is left, the loop can go on to it.
C31_SaveBestEffort ==
    /\ [][ saveerr' # saveerr =>
              /\ phase' = "saved"
              /\ success_count' = success_count + 1
              /\ outcome' = outcome
              /\ stats' = stats
              /\ todo' = todo
              /\ exitcode' = "none" ]_vars
    /\ [](phase = "saved" /\ saveerr > 0 /\ todo # <<>> =>
              ENABLED NextCollection)

\* C31: the metadata of the first collection could not be saved, and an item
\* of the second collection was downloaded.
C31_Witness ==
    /\ saveerr = 1
    /\ coll = 2
    /\ success_count = 1
    /\ \E t \in Tasks : outcome[t] = "Downloaded"


\* ------------------------------------------------------------------------
\* C32: download_collection on a definition whose files list is missing or
\* empty returns at once and is counted as processed: no item task exists, no
\* request is issued, no counter changes, the process goes on.
C32_EmptyCollection ==
    /\ [][ phase = "start" /\ files = <<>> =>
              /\ phase' = "returned"
              /\ success_count' = success_count + 1
              /\ stats' = stats
              /\ nHead' = nHead
              /\ nGet' = nGet
              /\ finalf' = finalf /\ tmpf' = tmpf /\ disk' = disk
              /\ exitcode' = "none" ]_vars
    /\ [](files = <<>> => \A t \in TaskIds : pc[t] = "done" /\ outcome[t] = "none")

\* C32: a run over two definitions without items has completed, with both
\* counted as processed and every counter at zero.
C32_Witness ==
    /\ phase = "exited"
    /\ report = "completed"
    /\ coll = 2
    /\ files = <<>>
    /\ success_count = 2
    /\ stats = ZeroStats

\* ------------------------------------------------------------------------
\* C33: after the deadline has cancelled the run in the middle of a
\* collection, the metadata file of the collection exists, holds the store as
\* it was at the cancellation, and read back it has a record, with the digest
\* and size of the published file, for every item that was Downloaded before.
C33_SavedOnCancel ==
    phase = "timedout" =>
        /\ saves = 1
        /\ disk.exists
        /\ disk = save(data)
        /\ \A t \in Tasks :
              outcome[t] = "Downloaded" =>
                  /\ load(disk)[Fname(t)].present
                  /\ load(disk)[Fname(t)].hash = Sha256(finalf[Fname(t)].content)
                  /\ load(disk)[Fname(t)].size = Len(finalf[Fname(t)].content)

\* C33: the deadline came after one item was Downloaded and while the other
\* was being transferred; the saved file has the record of the first.
C33_Witness ==
    /\ phase = "timedout"
    /\ \E t \in Tasks : outcome[t] = "Cancelled" /\ tmpf[Fname(t)].exists
    /\ \E t \in Tasks :
          outcome[t] = "Downloaded" /\ \E m \in disk.text : m.key = Fname(t)

\* ------------------------------------------------------------------------
\* The item tasks sleeping between two attempts.
Sleeping == {t \in Tasks : pc[t] = "sleep"}

\* C34: the step in which an item task starts to sleep between two attempts
\* gives its slot of the global semaphore back and keeps the slot of the
\* collection semaphore; the step that ends the sleep starts the next attempt
\* with the collection slot still held; and when no task is in an attempt,
\* the global semaphore is full while the collection semaphore is short of
\* one slot for every sleeping task.
C34_GatesDuringBackoff ==
    /\ [][ \A t \in Tasks :
              /\ pc[t] # "sleep" /\ pc'[t] = "sleep" =>
                     sem' = sem + 1 /\ csem' = csem
              /\ pc[t] = "sleep" /\ pc'[t] # "sleep" =>
                     csem' = csem /\ pc'[t] # "done" ]_vars
    /\ [](phase = "gather"
            /\ (\A t \in Tasks : pc[t] \in {"sleep", "wait_coll", "done"})
          => /\ sem = max_concurrent
             /\ csem = Min(max_concurrent, Len(files)) - Cardinality(Sleeping))

\* C34: with max_concurrent = 1 an item sleeps after a failed attempt: the
\* global slot is free, and the sibling still waits at the collection gate.
C34_Witness ==
    /\ max_concurrent = 1
    /\ sem = 1
    /\ csem = 0
    /\ \E t \in Tasks : pc[t] = "sleep"
    /\ \E t \in Tasks : pc[t] = "wait_coll"

\* ------------------------------------------------------------------------
\* C35: when a collection has been processed, downloaded + skipped + errors
\* has grown by the number of its items: every item of the manifest, those
\* with a missing or invalid url included, is in exactly one of the three.
C35_CounterConservation ==
    phase = "saved" =>
        stats.downloaded + stats.skipped + stats.errors = Len(files)


\* ------------------------------------------------------------------------
\* Item t has a valid url and no other item of the collection has its
\* filename.
OwnName(t) ==
    /\ files[t].url # NoUrl
    /\ validate_url(files[t].url)
    /\ \A u \in Tasks \ {t} :
          files[u].url = NoUrl \/ Filename(files[u].url) # Fname(t)

\* C36: while a collection is being downloaded, no step after which an item
\* with a filename of its own is not Downloaded changes the file at its final
\* path or its record in the store: an item that ends Failed has both as they
\* were before its first attempt.
C36_FailurePreservesPrevious ==
    [][ phase = "gather" =>
          \A t \in Tasks :
              OwnName(t) /\ outcome'[t] # "Downloaded" =>
                  /\ finalf'[Fname(t)] = finalf[Fname(t)]
                  /\ data'[Fname(t)] = data[Fname(t)] ]_vars

\* C36: an item whose file was fetched by an earlier run has ended Failed
\* after three transfers; the old file and its record are in place.
C36_Witness ==
    \E t \in Tasks :
        /\ outcome[t] = "Failed"
        /\ nGet[t] = RETRY_ATTEMPTS
        /\ OwnName(t)
        /\ finalf[Fname(t)] = File(OldBody)
        /\ data[Fname(t)] = OldRec

\* ------------------------------------------------------------------------
\* The url of item t is missing or lacks a scheme, a host or a path.
BadUrl(t) ==
    LET url == files[t].url
    IN url = NoUrl \/ url.scheme = "" \/ url.netloc = "" \/ url.path = <<>>

\* The filenames of the items whose url is complete.
GoodNames == {Filename(files[t].url) : t \in {u \in Tasks : ~BadUrl(u)}}

\* C37: an item whose url is missing or incomplete never gets into
\* download_file: it makes no attempt, waits for and holds no slot of the
\* global semaphore, issues no probe and no transfer and has no staging
\* handle; a filename only such items have gets no staging file, and its
\* published file and its record stay what earlier runs left; and the step that rejects an item that had waited at
\* the collection gate changes nothing of the semaphores, the counters, the
\* files, the store and the other tasks.
C37_InvalidUrlRejected ==
    /\ [](\A t \in Tasks :
            BadUrl(t) =>
                /\ pc[t] \in {"new", "wait_coll", "done"}
                /\ outcome[t] \in {"none", "Invalid"}
                /\ attempt[t] = 0 /\ nHead[t] = 0 /\ nGet[t] = 0
                /\ fd[t] = "none" /\ delays[t] = <<>>)
    /\ [](\A f \in Names \ GoodNames : ~tmpf[f].exists)
    /\ [][ \A f \in Names \ GoodNames :
              /\ finalf'[f] = finalf[f]
              /\ phase = "gather" => data'[f] = data[f] ]_vars
    /\ [][ \A t \in Tasks :
              pc[t] = "wait_coll" /\ outcome'[t] = "Invalid" =>
                  /\ sem' = sem /\ csem' = csem /\ stats' = stats
                  /\ data' = data /\ finalf' = finalf /\ tmpf' = tmpf
                  /\ \A u \in Tasks \ {t} :
                        /\ pc'[u] = pc[u] /\ outcome'[u] = outcome[u]
                        /\ fd'[u] = fd[u] /\ attempt'[u] = attempt[u] ]_vars

\* C37: an item without a url was rejected after waiting at the collection
\* gate, and its sibling was downloaded.
C37_Witness ==
    /\ max_concurrent = 1
    /\ \E t \in Tasks : BadUrl(t) /\ outcome[t] = "Invalid"
    /\ \E t \in Tasks : ~BadUrl(t) /\ outcome[t] = "Downloaded"
    /\ sem = max_concurrent

\* ------------------------------------------------------------------------
\* C38: total_size changes only in the step in which an item ends Downloaded,
\* and then by the size written to the item's record, which is the number of
\* bytes of the staging file that was published; attempts that fail and items
\* that are skipped add nothing.
C38_ByteAccounting ==
    [][ phase = "gather" =>
          /\ \A t \in Tasks :
                Publishes(t) =>
                    /\ data'[Fname(t)].size = Len(finalf'[Fname(t)].content)
                    /\ stats'.total_size =
                          stats.total_size + data'[Fname(t)].size
          /\ stats'.total_size # stats.total_size =>
                \E t \in Tasks : Publishes(t) ]_vars

====
